---- MODULE Spec2Model ----
(***************************************************************************)
(* Deck design checker: the rule validator (validatePresentation and its   *)
(* per-kind checkers), the rule compiler (parseMarkdownRules), the package *)
(* extractor (parsePptxFile) and the page that runs them (handleSubmit of  *)
(* Index).                                                                 *)
(*                                                                         *)
(* JavaScript strings are sequences of one-character strings, so that      *)
(* toLowerCase, includes, trim, split and the bullet-stripping replace are *)
(* computed character by character.  An optional field is a record         *)
(* [def, val]: def = FALSE is JavaScript's undefined.                      *)
(***************************************************************************)
EXTENDS Integers, Sequences, FiniteSets, TLC

VARIABLES
    op,            \* which call has completed: "idle", "validate", "compile",
                   \* "extract"; "page" once the page is in use
    presentation,  \* ParsedPresentation handed to validatePresentation
    rules,         \* DesignRule[] handed to validatePresentation
    violations,    \* Violation[] returned by validatePresentation
    tokens,        \* block tokens marked.lexer returned for the rule text
    compiled,      \* DesignRule[] returned by parseMarkdownRules
    package,       \* the package handed to parsePptxFile
    extraction,    \* what parsePptxFile returned, or that it threw
    file,          \* state of Index: the file chosen, or null
    rulesText,     \* state of Index: rules, the text of the rules editor
    uiViolations,  \* state of Index: violations, the UIViolation[] shown
    isProcessing,  \* state of Index
    hasResults,    \* state of Index
    pc,            \* "ready", or "awaiting" while handleSubmit awaits
                   \* parsePptxFile
    submitted,     \* the file and rules handleSubmit was last started with
    toast,         \* the toast the last run of handleSubmit ended with
    validated      \* whether that run called validatePresentation, and the
                   \* rules it passed

callVars == <<presentation, rules, violations, tokens, compiled, package, extraction>>
pageVars == <<file, rulesText, uiViolations, isProcessing, hasResults, pc,
              submitted, toast, validated>>
vars == <<op, callVars, pageVars>>

---------------------------------------------------------------------------
(* Bounds of the model. *)

\* slides of a presentation
MaxSlides == 2
\* rules of a rule list handed to the validator
MaxRules == 2
\* text runs plus images of a whole presentation
MaxElems == 2
\* rule evaluations per call: Len(rules) * (elements of the presentation)
MaxChecks == 4

---------------------------------------------------------------------------
(* String primitives. *)

UpperChars == <<"A", "B", "C", "D", "E", "F", "G", "H", "I", "J", "K", "L", "M", "N", "O", "P", "Q", "R", "S", "T", "U", "V", "W", "X", "Y", "Z">>
LowerChars == <<"a", "b", "c", "d", "e", "f", "g", "h", "i", "j", "k", "l", "m", "n", "o", "p", "q", "r", "s", "t", "u", "v", "w", "x", "y", "z">>

Min(a, b) == IF a < b THEN a ELSE b

\* the lower-case letter of each upper-case letter
LowerOf ==
    [c \in { UpperChars[i] : i \in 1..Len(UpperChars) } |->
        LowerChars[CHOOSE i \in 1..Len(UpperChars) : UpperChars[i] = c]]

\* String.prototype.toLowerCase, one character
toLowerChar(c) == IF c \in DOMAIN LowerOf THEN LowerOf[c] ELSE c

\* String.prototype.toLowerCase
toLowerCase(s) == [i \in 1..Len(s) |-> toLowerChar(s[i])]

\* String.prototype.includes: needle occurs as a contiguous substring
includes(hay, needle) ==
    \E i \in 0..(Len(hay) - Len(needle)) :
        SubSeq(hay, i + 1, i + Len(needle)) = needle

\* String.prototype.substring(0, n)
substring0(s, n) == SubSeq(s, 1, Min(n, Len(s)))

\* Array.prototype.includes
arrayIncludes(arr, x) == \E i \in 1..Len(arr) : arr[i] = x

\* Array.prototype.some
some(arr, P(_)) == \E i \in 1..Len(arr) : P(arr[i])

---------------------------------------------------------------------------
(* Optional values. *)

UndefinedStr == [def |-> FALSE, val |-> <<>>]
UndefinedNum == [def |-> FALSE, val |-> 0]
UndefinedList == [def |-> FALSE, val |-> <<>>]
Some(v) == [def |-> TRUE, val |-> v]

\* JavaScript truthiness of an optional string: undefined and "" are falsy
truthyStr(o) == o.def /\ o.val # <<>>
\* JavaScript truthiness of an optional number: undefined and 0 are falsy
truthyNum(o) == o.def /\ o.val # 0
\* `x || []`
orEmpty(o) == IF o.def THEN o.val ELSE <<>>

---------------------------------------------------------------------------
(* Data model: DesignRule, Violation. *)

\* DesignRule.parameters
Params(allowed, minV, maxV, forb, types) ==
    [allowedValues |-> allowed, minValue |-> minV, maxValue |-> maxV,
     forbidden |-> forb, slideTypes |-> types]

\* `parameters: {}`
NoParams ==
    Params(UndefinedList, UndefinedNum, UndefinedNum, UndefinedList, UndefinedList)

\* DesignRule; the id `rule-${n}` is kept as the pair of its prefix and number
Rule(n, desc, type, params) ==
    [id |-> <<"rule-", n>>, description |-> desc, type |-> type, parameters |-> params]

\* Violation.description: the message template with the values it interpolates
Description(msg, foundStr, foundNum, list, bound, ruleDesc) ==
    [msg |-> msg, foundStr |-> foundStr, foundNum |-> foundNum,
     list |-> list, bound |-> bound, ruleDesc |-> ruleDesc]

\* one entry of Violation.elements: the label with the values it interpolates
Element(label, text, str, num) ==
    [label |-> label, text |-> text, str |-> str, num |-> num]

Violation(slide, rule, description, elements, severity) ==
    [slide |-> slide, rule |-> rule, description |-> description,
     elements |-> elements, severity |-> severity]

---------------------------------------------------------------------------
(* Rule validator. *)

\* the sequence of f(x) for the x of arr that satisfy keep, in order:
\* `arr.forEach(x => { if (keep(x)) out.push(f(x)) })`
pushEach(arr, keep(_), f(_)) ==
    LET kept == SelectSeq(arr, keep)
    IN [i \in 1..Len(kept) |-> f(kept[i])]

\* variant of validateColorRule comparing the colors as written, without
\* lower-casing either side
validateColorRuleCaseSensitive(slide, rule) ==
    LET allowedColors == orEmpty(rule.parameters.allowedValues)
        colorMatch(text) ==
            some(allowedColors, LAMBDA allowed : includes(text.color.val, allowed))
        offending(text) == truthyStr(text.color) /\ ~colorMatch(text)
        violation(text) ==
            Violation(slide.slideNumber, rule,
                      Description("Text color not in allowed list",
                                  text.color.val, 0, allowedColors, 0, <<>>),
                      <<Element("Text with color",
                                substring0(text.content, 50), text.color.val, 0)>>,
                      "error")
    IN IF Len(allowedColors) = 0
       THEN <<>>
       ELSE pushEach(slide.texts, offending, violation)

validateColorRule(slide, rule) ==
    LET allowedColors == orEmpty(rule.parameters.allowedValues)
        colorMatch(text) ==
            some(allowedColors,
                 LAMBDA allowed :
                    includes(toLowerCase(text.color.val), toLowerCase(allowed)))
        offending(text) == truthyStr(text.color) /\ ~colorMatch(text)
        violation(text) ==
            Violation(slide.slideNumber, rule,
                      Description("Text color not in allowed list",
                                  text.color.val, 0, allowedColors, 0, <<>>),
                      <<Element("Text with color",
                                substring0(text.content, 50), text.color.val, 0)>>,
                      "error")
    IN IF Len(allowedColors) = 0
       THEN <<>>
       ELSE pushEach(slide.texts, offending, violation)

validateFontSizeRule(slide, rule) ==
    LET minSize == rule.parameters.minValue
        maxSize == rule.parameters.maxValue
        belowMin(text) == truthyNum(minSize) /\ text.fontSize.val < minSize.val
        aboveMax(text) == truthyNum(maxSize) /\ text.fontSize.val > maxSize.val
        violationFound(text) ==
            truthyNum(text.fontSize) /\ (belowMin(text) \/ aboveMax(text))
        \* the second assignment overwrites the first
        violationMessage(text) ==
            IF aboveMax(text)
            THEN Description("Font size exceeds maximum requirement",
                             <<>>, text.fontSize.val, <<>>, maxSize.val, <<>>)
            ELSE Description("Font size is below minimum requirement",
                             <<>>, text.fontSize.val, <<>>, minSize.val, <<>>)
        violation(text) ==
            Violation(slide.slideNumber, rule, violationMessage(text),
                      <<Element("Text", substring0(text.content, 30),
                                <<>>, text.fontSize.val)>>,
                      "error")
    IN pushEach(slide.texts, violationFound, violation)

validateFontFamilyRule(slide, rule) ==
    LET allowedFonts == orEmpty(rule.parameters.allowedValues)
        fontMatch(text) ==
            some(allowedFonts,
                 LAMBDA allowed :
                    includes(toLowerCase(text.fontFamily.val), toLowerCase(allowed)))
        offending(text) == truthyStr(text.fontFamily) /\ ~fontMatch(text)
        violation(text) ==
            Violation(slide.slideNumber, rule,
                      Description("Font family not in allowed list",
                                  text.fontFamily.val, 0, allowedFonts, 0, <<>>),
                      <<Element("Text with font", <<>>, text.fontFamily.val, 0)>>,
                      "error")
    IN IF Len(allowedFonts) = 0
       THEN <<>>
       ELSE pushEach(slide.texts, offending, violation)

\* variant of validateImageRule that fires for forbidden "all" only and
\* ignores the slide types
validateImageRuleAllOnly(slide, rule) ==
    IF /\ arrayIncludes(orEmpty(rule.parameters.forbidden), "all")
       /\ Len(slide.images) > 0
    THEN <<Violation(slide.slideNumber, rule,
                     Description("Slide contains images, which violates the rule",
                                 <<>>, 0, <<>>, 0, rule.description),
                     [i \in 1..Len(slide.images) |->
                         Element("Image", slide.images[i].name, <<>>, 0)],
                     "error")>>
    ELSE <<>>

\* variant of validateImageRule that applies a rule naming any slide type to
\* every slide
validateImageRuleAnyType(slide, rule) ==
    IF /\ \/ arrayIncludes(orEmpty(rule.parameters.forbidden), "all")
          \/ arrayIncludes(orEmpty(rule.parameters.forbidden), "images")
       /\ Len(slide.images) > 0
    THEN <<Violation(slide.slideNumber, rule,
                     Description("Slide contains images, which violates the rule",
                                 <<>>, 0, <<>>, 0, rule.description),
                     [i \in 1..Len(slide.images) |->
                         Element("Image", slide.images[i].name, <<>>, 0)],
                     "error")>>
    ELSE <<>>

validateImageRule(slide, rule) ==
    LET forbidden == orEmpty(rule.parameters.forbidden)
        slideTypes == orEmpty(rule.parameters.slideTypes)
        isTitleSlide == slide.slideNumber = 1 \/ arrayIncludes(slideTypes, "title")
        shouldApplyRule ==
            \/ Len(slideTypes) = 0
            \/ arrayIncludes(slideTypes, "all")
            \/ (isTitleSlide /\ arrayIncludes(slideTypes, "title"))
    IN IF /\ (arrayIncludes(forbidden, "all") \/ arrayIncludes(forbidden, "images"))
          /\ shouldApplyRule
          /\ Len(slide.images) > 0
       THEN <<Violation(slide.slideNumber, rule,
                        Description("Slide contains images, which violates the rule",
                                    <<>>, 0, <<>>, 0, rule.description),
                        [i \in 1..Len(slide.images) |->
                            Element("Image", slide.images[i].name, <<>>, 0)],
                        "error")>>
       ELSE <<>>

Required == <<"r", "e", "q", "u", "i", "r", "e", "d">>

\* variant of validateTextRule reporting the missing text as an error
validateTextRuleAsError(slide, rule) ==
    IF Len(slide.texts) = 0 /\ includes(rule.description, Required)
    THEN <<Violation(slide.slideNumber, rule,
                     Description("Slide has no text content but text is required",
                                 <<>>, 0, <<>>, 0, <<>>),
                     <<Element("No text found on slide", <<>>, <<>>, 0)>>,
                     "error")>>
    ELSE <<>>

validateTextRule(slide, rule) ==
    IF Len(slide.texts) = 0 /\ includes(rule.description, Required)
    THEN <<Violation(slide.slideNumber, rule,
                     Description("Slide has no text content but text is required",
                                 <<>>, 0, <<>>, 0, <<>>),
                     <<Element("No text found on slide", <<>>, <<>>, 0)>>,
                     "warning")>>
    ELSE <<>>

\* variant of validateCustomRule reporting every slide
validateCustomRuleReporting(slide, rule) ==
    <<Violation(slide.slideNumber, rule,
                Description("Custom rule not satisfied", <<>>, 0, <<>>, 0, rule.description),
                <<>>, "warning")>>

validateCustomRule(slide, rule) == <<>>

validateSlideAgainstRule(slide, rule) ==
    CASE rule.type = "color" -> validateColorRule(slide, rule)
      [] rule.type = "font-size" -> validateFontSizeRule(slide, rule)
      [] rule.type = "font-family" -> validateFontFamilyRule(slide, rule)
      [] rule.type = "image" -> validateImageRule(slide, rule)
      [] rule.type = "text" -> validateTextRule(slide, rule)
      [] rule.type = "custom" -> validateCustomRule(slide, rule)
      [] OTHER -> <<>>

\* `slides.forEach(slide => violations.push(...validateSlideAgainstRule(slide, rule)))`
RECURSIVE forEachSlide(_, _)
forEachSlide(slides, rule) ==
    IF slides = <<>>
    THEN <<>>
    ELSE validateSlideAgainstRule(Head(slides), rule) \o forEachSlide(Tail(slides), rule)

\* `rules.forEach(rule => presentation.slides.forEach(...))`
RECURSIVE forEachRule(_, _)
forEachRule(slides, ruleList) ==
    IF ruleList = <<>>
    THEN <<>>
    ELSE forEachSlide(slides, Head(ruleList)) \o forEachRule(slides, Tail(ruleList))

\* variant of validatePresentation with the loops exchanged: slide-major
RECURSIVE forEachRuleOfSlide(_, _)
forEachRuleOfSlide(slide, ruleList) ==
    IF ruleList = <<>>
    THEN <<>>
    ELSE validateSlideAgainstRule(slide, Head(ruleList))
         \o forEachRuleOfSlide(slide, Tail(ruleList))

RECURSIVE forEachSlideFirst(_, _)
forEachSlideFirst(slides, ruleList) ==
    IF slides = <<>>
    THEN <<>>
    ELSE forEachRuleOfSlide(Head(slides), ruleList)
         \o forEachSlideFirst(Tail(slides), ruleList)

validatePresentationSlideMajor(pres, ruleList) == forEachSlideFirst(pres.slides, ruleList)

validatePresentation(pres, ruleList) == forEachRule(pres.slides, ruleList)

---------------------------------------------------------------------------
(* Rule compiler: string and regular-expression primitives. *)

\* the characters the regular expressions' \s and String.prototype.trim strip
\* `const value = v; ... body ...`: body with the value v bound to its name
With(v, body(_)) == body(v)

Whitespace == {" ", "\t", "\n", "\r"}

\* the characters of \d, in value order
DecimalDigits == <<"0", "1", "2", "3", "4", "5", "6", "7", "8", "9">>

isDigit(c) == \E d \in 1..10 : DecimalDigits[d] = c

\* literal lit occurs in s at position i (1-based)
matchAt(s, i, lit) ==
    /\ i >= 1
    /\ i + Len(lit) - 1 <= Len(s)
    /\ SubSeq(s, i, i + Len(lit) - 1) = lit

\* first position >= i of s that holds no character of class, Len(s) + 1 if none:
\* where a greedy `class*` started at i stops
skipWhile(s, i, class(_)) ==
    IF \E j \in i..Len(s) : ~class(s[j])
    THEN CHOOSE j \in i..Len(s) : ~class(s[j]) /\ \A k \in i..(j - 1) : class(s[k])
    ELSE Len(s) + 1

skipWs(s, i) == skipWhile(s, i, LAMBDA c : c \in Whitespace)
skipDigits(s, i) == skipWhile(s, i, isDigit)
skipNonDot(s, i) == skipWhile(s, i, LAMBDA c : c # ".")

\* String.prototype.trim
trim(s) ==
    LET first == skipWs(s, 1)
    IN IF first > Len(s)
       THEN <<>>
       ELSE SubSeq(s, first,
                   CHOOSE last \in first..Len(s) :
                      /\ s[last] \notin Whitespace
                      /\ \A k \in (last + 1)..Len(s) : s[k] \in Whitespace)

\* String.prototype.split('\n')
RECURSIVE splitLines(_)
splitLines(s) ==
    IF \E i \in 1..Len(s) : s[i] = "\n"
    THEN LET i == CHOOSE j \in 1..Len(s) :
                    s[j] = "\n" /\ \A k \in 1..(j - 1) : s[k] # "\n"
         IN <<SubSeq(s, 1, i - 1)>> \o splitLines(SubSeq(s, i + 1, Len(s)))
    ELSE <<s>>

\* ruleText.replace(/^[-*]\s*/, '')
stripBullet(s) ==
    IF Len(s) > 0 /\ s[1] \in {"-", "*"}
    THEN SubSeq(s, skipWs(s, 2), Len(s))
    ELSE s

\* parseInt of a non-empty run of decimal digits
RECURSIVE parseInt(_)
parseInt(digits) ==
    IF digits = <<>>
    THEN 0
    ELSE 10 * parseInt(SubSeq(digits, 1, Len(digits) - 1))
         + (CHOOSE d \in 1..10 : DecimalDigits[d] = digits[Len(digits)]) - 1

\* the number a capture group (\d+) starting at position p holds
digitsAt(s, p) == parseInt(SubSeq(s, p, skipDigits(s, p) - 1))

hasDigitAt(s, p) == p <= Len(s) /\ isDigit(s[p])

\* the leftmost position of Starts at which a match exists, 0 if none
leftmost(Starts) ==
    IF Starts = {} THEN 0 ELSE CHOOSE i \in Starts : \A j \in Starts : i <= j

\* `\s*(?:is\s*|:\s*)?(\d+)` started at p: the position of the captured
\* digits, 0 if it does not match there
boundValueAt(s, p) ==
    With(skipWs(s, p),
         LAMBDA q :
            IF hasDigitAt(s, q) THEN q
            ELSE IF matchAt(s, q, <<"i", "s">>) /\ hasDigitAt(s, skipWs(s, q + 2))
                 THEN skipWs(s, q + 2)
            ELSE IF matchAt(s, q, <<":">>) /\ hasDigitAt(s, skipWs(s, q + 1))
                 THEN skipWs(s, q + 1)
            ELSE 0)

\* `<stem>(?:<rest>)?\s*(?:is\s*|:\s*)?(\d+)` started at i: the position of
\* the captured digits, 0 if it does not match there
stemValueAt(s, i, stem, rest) ==
    IF ~matchAt(s, i, stem) THEN 0
    ELSE With(IF matchAt(s, i + Len(stem), rest)
              THEN boundValueAt(s, i + Len(stem) + Len(rest))
              ELSE 0,
              LAMBDA long : IF long # 0 THEN long ELSE boundValueAt(s, i + Len(stem)))

\* `<w1>\s+<w2>\s+...\s+(\d+)` started at i, words the literal words in
\* order: the position of the captured digits, 0 if it does not match there
RECURSIVE wordsValueAt(_, _, _)
wordsValueAt(s, i, words) ==
    IF words = <<>>
    THEN IF hasDigitAt(s, i) THEN i ELSE 0
    ELSE IF matchAt(s, i, Head(words))
            /\ i + Len(Head(words)) <= Len(s)
            /\ s[i + Len(Head(words))] \in Whitespace
         THEN wordsValueAt(s, skipWs(s, i + Len(Head(words))), Tail(words))
    ELSE 0

\* `(\d+)\s*(?:pt|px|points?)\s*or\s*higher` matches with its digits at i
orHigherAt(s, i) ==
    /\ hasDigitAt(s, i)
    /\ LET u == skipWs(s, skipDigits(s, i))
           afterUnit(n) ==
                LET o == skipWs(s, u + n)
                IN matchAt(s, o, <<"o", "r">>) /\ matchAt(s, skipWs(s, o + 2), <<"h", "i", "g", "h", "e", "r">>)
       IN \/ matchAt(s, u, <<"p", "t">>) /\ afterUnit(2)
          \/ matchAt(s, u, <<"p", "x">>) /\ afterUnit(2)
          \/ matchAt(s, u, <<"p", "o", "i", "n", "t", "s">>) /\ afterUnit(6)
          \/ matchAt(s, u, <<"p", "o", "i", "n", "t">>) /\ afterUnit(5)

\* the value captured by the leftmost match, where valueAt(i) is the position
\* of the digits captured by a match started at i (0: no match at i)
firstValue(s, valueAt(_)) ==
    With(leftmost({ j \in 1..Len(s) : valueAt(j) # 0 }),
         LAMBDA i : IF i = 0 THEN UndefinedNum ELSE Some(digitsAt(s, valueAt(i))))

\* the three patterns of extractMinValue, tried in order on the lower-cased text
minMatch(s) == firstValue(s, LAMBDA i : stemValueAt(s, i, <<"m", "i", "n">>, <<"i", "m", "u", "m">>))
atLeastMatch(s) == firstValue(s, LAMBDA i : wordsValueAt(s, i, <<<<"a", "t">>, <<"l", "e", "a", "s", "t">>>>))
orHigherMatch(s) == firstValue(s, LAMBDA i : IF orHigherAt(s, i) THEN i ELSE 0)

extractMinValue(text) ==
    With(minMatch(toLowerCase(text)),
         LAMBDA m : IF m.def THEN m
                    ELSE With(atLeastMatch(toLowerCase(text)),
                              LAMBDA a : IF a.def THEN a
                                         ELSE orHigherMatch(toLowerCase(text))))

\* the two patterns of extractMaxValue, tried in order on the lower-cased text
maxMatch(s) == firstValue(s, LAMBDA i : stemValueAt(s, i, <<"m", "a", "x">>, <<"i", "m", "u", "m">>))
noMoreThanMatch(s) == firstValue(s, LAMBDA i : wordsValueAt(s, i, <<<<"n", "o">>, <<"m", "o", "r", "e">>, <<"t", "h", "a", "n">>>>))

extractMaxValue(text) ==
    With(maxMatch(toLowerCase(text)),
         LAMBDA m : IF m.def THEN m ELSE noMoreThanMatch(toLowerCase(text)))

\* `\s+and\s+` matches at q: the position after the match, 0 if none
andSeparatorAt(s, q) ==
    LET a == skipWs(s, q)
    IN IF /\ q <= Len(s) /\ s[q] \in Whitespace
          /\ matchAt(s, a, <<"a", "n", "d">>)
          /\ a + 3 <= Len(s) /\ s[a + 3] \in Whitespace
       THEN skipWs(s, a + 3)
       ELSE 0

\* `/[,&]|\s+and\s+/` matches at q: the position after the match, 0 if none
separatorAt(s, q) ==
    IF q <= Len(s) /\ s[q] \in {",", "&"} THEN q + 1 ELSE andSeparatorAt(s, q)

\* String.prototype.split(/[,&]|\s+and\s+/): p is where the current piece
\* starts, q the position being tried
RECURSIVE splitFrom(_, _, _)
splitFrom(s, p, q) ==
    IF q > Len(s)
    THEN <<SubSeq(s, p, Len(s))>>
    ELSE IF separatorAt(s, q) # 0
         THEN <<SubSeq(s, p, q - 1)>> \o splitFrom(s, separatorAt(s, q), separatorAt(s, q))
    ELSE splitFrom(s, p, q + 1)

\* `.split(/[,&]|\s+and\s+/).map(s => s.trim()).filter(Boolean)`
splitList(group) ==
    LET pieces == splitFrom(group, 1, 1)
        trimmed == [k \in 1..Len(pieces) |-> trim(pieces[k])]
    IN SelectSeq(trimmed, LAMBDA x : x # <<>>)

\* `allowed?:\s*([^.]+)` started at i: <<start, end>> of the capture group,
\* <<0, 0>> if it does not match there
colonGroupAt(s, i) ==
    With(IF matchAt(s, i, <<"a", "l", "l", "o", "w", "e", "d", ":">>) THEN i + 7
         ELSE IF matchAt(s, i, <<"a", "l", "l", "o", "w", "e", ":">>) THEN i + 6
         ELSE 0,
         LAMBDA colon :
            IF colon = 0 THEN <<0, 0>>
            ELSE With(skipWs(s, colon + 1),
                      LAMBDA q :
                         IF q <= Len(s) /\ s[q] # "." THEN <<q, skipNonDot(s, q) - 1>>
                         \* \s* gives its last space back to the group
                         ELSE IF q > colon + 1 THEN <<q - 1, q - 1>>
                         ELSE <<0, 0>>))

\* `(?:\s+are?\s+allowed|$)` matches at position t
onlyTerminatorAt(s, t) ==
    \/ t = Len(s) + 1
    \/ /\ t <= Len(s) /\ s[t] \in Whitespace
       /\ LET a == skipWs(s, t)
              allowedAfter(n) ==
                /\ a + n <= Len(s) /\ s[a + n] \in Whitespace
                /\ matchAt(s, skipWs(s, a + n), <<"a", "l", "l", "o", "w", "e", "d">>)
          IN \/ matchAt(s, a, <<"a", "r", "e">>) /\ allowedAfter(3)
             \/ matchAt(s, a, <<"a", "r">>) /\ allowedAfter(2)

\* the lazy group `([^.]+?)` started at g: its end, 0 if no end lets the
\* terminator match
onlyGroupEnd(s, g) ==
    LET Ends == { e \in g..Len(s) :
                    /\ \A k \in g..e : s[k] # "."
                    /\ onlyTerminatorAt(s, e + 1) }
    IN leftmost(Ends)

\* `only\s+([^.]+?)(?:\s+are?\s+allowed|$)` started at i: <<start, end>> of
\* the capture group, <<0, 0>> if it does not match there; the greedy \s+ is
\* tried longest first
onlyGroupAt(s, i) ==
    IF ~matchAt(s, i, <<"o", "n", "l", "y">>) THEN <<0, 0>>
    ELSE With({ g \in (i + 5)..skipWs(s, i + 4) : onlyGroupEnd(s, g) # 0 },
              LAMBDA Starts :
                 IF Starts = {}
                 THEN <<0, 0>>
                 ELSE With(CHOOSE x \in Starts : \A y \in Starts : y <= x,
                           LAMBDA g : <<g, onlyGroupEnd(s, g)>>))

\* the capture group of the leftmost match: <<start, end>>, <<0, 0>> if none
firstGroup(s, groupAt(_)) ==
    With(leftmost({ j \in 1..Len(s) : groupAt(j)[1] # 0 }),
         LAMBDA i : IF i = 0 THEN <<0, 0>> ELSE groupAt(i))

extractAllowedValues(text) ==
    With(firstGroup(toLowerCase(text), LAMBDA i : colonGroupAt(toLowerCase(text), i)),
         LAMBDA colonMatch :
            IF colonMatch[1] # 0
            THEN splitList(SubSeq(text, colonMatch[1], colonMatch[2]))
            ELSE With(firstGroup(toLowerCase(text),
                                 LAMBDA i : onlyGroupAt(toLowerCase(text), i)),
                      LAMBDA onlyMatch :
                         IF onlyMatch[1] # 0
                         THEN splitList(SubSeq(text, onlyMatch[1], onlyMatch[2]))
                         ELSE <<>>))

extractSlideTypes(text) ==
    (IF includes(text, <<"t", "i", "t", "l", "e", " ", "s", "l", "i", "d", "e">>) THEN <<"title">> ELSE <<>>)
    \o (IF includes(text, <<"c", "o", "n", "t", "e", "n", "t", " ", "s", "l", "i", "d", "e">>) THEN <<"content">> ELSE <<>>)
    \o (IF includes(text, <<"a", "l", "l", " ", "s", "l", "i", "d", "e">>) THEN <<"all">> ELSE <<>>)

---------------------------------------------------------------------------
(* Rule compiler. *)

\* variant of ruleType testing for a font-size rule before a color rule
ruleTypeSizeFirst(cleanText) ==
    LET has(cue) == includes(cleanText, cue)
    IN IF has(<<"f", "o", "n", "t", " ", "s", "i", "z", "e">>) \/ (has(<<"t", "i", "t", "l", "e">>) /\ has(<<"s", "i", "z", "e">>))
       THEN "font-size"
       ELSE IF has(<<"t", "e", "x", "t", " ", "c", "o", "l", "o", "r">>) /\ has(<<"a", "l", "l", "o", "w", "e", "d">>)
       THEN "color"
       ELSE IF /\ has(<<"i", "m", "a", "g", "e">>) \/ has(<<"p", "i", "c", "t", "u", "r", "e">>)
               /\ has(<<"n", "o", " ">>) \/ has(<<"n", "o", "t", " ", "a", "l", "l", "o", "w", "e", "d">>) \/ has(<<"f", "o", "r", "b", "i", "d", "d", "e", "n">>)
       THEN "image"
       ELSE IF has(<<"f", "o", "n", "t">>) /\ (has(<<"f", "a", "m", "i", "l", "y">>) \/ has(<<"t", "y", "p", "e">>))
       THEN "font-family"
       ELSE IF has(<<"t", "e", "x", "t">>) /\ ~has(<<"c", "o", "l", "o", "r">>) /\ ~has(<<"s", "i", "z", "e">>)
       THEN "text"
       ELSE IF Len(cleanText) > 0
       THEN "custom"
       ELSE "null"

\* the cascade of tests of parseRuleText: the type of the rule made of
\* cleanText, "null" when none is made (first test that holds decides)
ruleType(cleanText) ==
    LET has(cue) == includes(cleanText, cue)
    IN IF has(<<"t", "e", "x", "t", " ", "c", "o", "l", "o", "r">>) /\ has(<<"a", "l", "l", "o", "w", "e", "d">>)
       THEN "color"
       ELSE IF has(<<"f", "o", "n", "t", " ", "s", "i", "z", "e">>) \/ (has(<<"t", "i", "t", "l", "e">>) /\ has(<<"s", "i", "z", "e">>))
       THEN "font-size"
       ELSE IF /\ has(<<"i", "m", "a", "g", "e">>) \/ has(<<"p", "i", "c", "t", "u", "r", "e">>)
               /\ has(<<"n", "o", " ">>) \/ has(<<"n", "o", "t", " ", "a", "l", "l", "o", "w", "e", "d">>) \/ has(<<"f", "o", "r", "b", "i", "d", "d", "e", "n">>)
       THEN "image"
       ELSE IF has(<<"f", "o", "n", "t">>) /\ (has(<<"f", "a", "m", "i", "l", "y">>) \/ has(<<"t", "y", "p", "e">>))
       THEN "font-family"
       ELSE IF has(<<"t", "e", "x", "t">>) /\ ~has(<<"c", "o", "l", "o", "r">>) /\ ~has(<<"s", "i", "z", "e">>)
       THEN "text"
       ELSE IF Len(cleanText) > 0
       THEN "custom"
       ELSE "null"

\* the parameters parseRuleText gives a rule of the type
ruleParameters(type, cleanText) ==
    CASE type \in {"color", "font-family"} ->
            Params(Some(extractAllowedValues(cleanText)), UndefinedNum, UndefinedNum,
                   UndefinedList, UndefinedList)
      [] type = "font-size" ->
            Params(UndefinedList, extractMinValue(cleanText), extractMaxValue(cleanText),
                   UndefinedList, UndefinedList)
      [] type = "image" ->
            Params(UndefinedList, UndefinedNum, UndefinedNum,
                   Some(<<"all">>), Some(extractSlideTypes(cleanText)))
      [] OTHER -> NoParams

\* the result is the one-element list of the rule, or the empty list for null
parseRuleText(ruleText, id) ==
    With(trim(stripBullet(ruleText)),
         LAMBDA cleanText :
            With(ruleType(cleanText),
                 LAMBDA type :
                    IF type = "null"
                    THEN <<>>
                    ELSE <<Rule(id, cleanText, type, ruleParameters(type, cleanText))>>))

\* `token.items.forEach(item => ...)`; st holds rules and ruleCounter
RECURSIVE forEachItem(_, _)
forEachItem(items, st) ==
    IF items = <<>>
    THEN st
    ELSE LET ruleText == trim(toLowerCase(Head(items)))
             rule == parseRuleText(ruleText, st.ruleCounter + 1)
         IN forEachItem(Tail(items),
                        [rules |-> st.rules \o rule, ruleCounter |-> st.ruleCounter + 1])

\* `lines.forEach(line => ...)`
RECURSIVE forEachLine(_, _)
forEachLine(lines, st) ==
    IF lines = <<>>
    THEN st
    ELSE LET ruleText == trim(toLowerCase(Head(lines)))
             rule == parseRuleText(ruleText, st.ruleCounter + 1)
         IN forEachLine(Tail(lines),
                        IF Len(ruleText) > 0
                        THEN [rules |-> st.rules \o rule,
                              ruleCounter |-> st.ruleCounter + 1]
                        ELSE st)

\* `tokens.forEach(token => ...)`
RECURSIVE forEachToken(_, _)
forEachToken(toks, st) ==
    IF toks = <<>>
    THEN st
    ELSE forEachToken(Tail(toks),
            IF Head(toks).type = "list"
            THEN forEachItem(Head(toks).items, st)
            ELSE IF Head(toks).type = "paragraph"
            THEN forEachLine(splitLines(Head(toks).text), st)
            ELSE st)

\* variant of parseMarkdownRules reading the lists only
parseMarkdownRulesListsOnly(toks) ==
    forEachToken(SelectSeq(toks, LAMBDA t : t.type = "list"),
                 [rules |-> <<>>, ruleCounter |-> 0]).rules

\* the rules returned for the tokens marked.lexer(markdownText) gave
parseMarkdownRules(toks) ==
    forEachToken(toks, [rules |-> <<>>, ruleCounter |-> 0]).rules

---------------------------------------------------------------------------
(* The package extractor: parsePptxFile.                                   *)
(*                                                                         *)
(* A package is what JSZip gives for the file: whether it loads, the       *)
(* entries in listing order (the order of Object.keys(zip.files)), and the *)
(* theme part.  The content of an entry is "" (kind "empty"), a text the   *)
(* XML parser rejects (kind "unparsable"), or a slide document.  Two       *)
(* builds of the extractor exist in the sources: one reads the parts with  *)
(* fast-xml-parser, the other with xml2js.                                 *)

Builds == { "fast-xml-parser", "xml2js" }

\* String.prototype.startsWith and endsWith
startsWith(s, prefix) == matchAt(s, 1, prefix)
endsWith(s, suffix) == matchAt(s, Len(s) - Len(suffix) + 1, suffix)

\* the filter of parsePptxFile: the names of the slide parts
isSlideFile(fileName) ==
    /\ startsWith(fileName, <<"p", "p", "t", "/", "s", "l", "i", "d", "e", "s", "/", "s", "l", "i", "d", "e">>)
    /\ endsWith(fileName, <<".", "x", "m", "l">>)

\* `slide(\d+)\.xml` started at i: matches there
slideIndexAt(s, i) ==
    /\ matchAt(s, i, <<"s", "l", "i", "d", "e">>)
    /\ hasDigitAt(s, i + 5)
    /\ matchAt(s, skipDigits(s, i + 5), <<".", "x", "m", "l">>)

\* `parseInt(a.match(/slide(\d+)\.xml/)?.[1] || "0")`
slideIndex(s) ==
    With(leftmost({ i \in 1..Len(s) : slideIndexAt(s, i) }),
         LAMBDA i : IF i = 0 THEN 0 ELSE digitsAt(s, i + 5))

\* a parsePptxFile without the sort: the slide parts in listing order
sortByListing(names) == names


\* one insertion of the stable sort: name goes after the last element whose
\* index is not greater
RECURSIVE insertByIndex(_, _)
insertByIndex(sorted, name) ==
    IF sorted = <<>>
    THEN <<name>>
    ELSE IF slideIndex(sorted[Len(sorted)]) - slideIndex(name) <= 0
         THEN Append(sorted, name)
         ELSE Append(insertByIndex(SubSeq(sorted, 1, Len(sorted) - 1), name),
                     sorted[Len(sorted)])

\* `slideFiles.sort((a, b) => numA - numB)`: Array.prototype.sort is stable
RECURSIVE sortByIndex(_)
sortByIndex(names) ==
    IF names = <<>>
    THEN <<>>
    ELSE insertByIndex(sortByIndex(SubSeq(names, 1, Len(names) - 1)),
                       names[Len(names)])


\* a slide document as the XML parser gives it: the p:sp shapes in document
\* order, each with the a:r runs of its paragraphs (a:t text and the sz,
\* a:latin typeface and a:srgbClr val attributes of a:rPr), and the a:blip
\* image references in document order with their r:embed attribute
Run(t, sz, latin, val) == [t |-> t, sz |-> sz, latin |-> latin, val |-> val]
Shape(runs) == [runs |-> runs]
Blip(embed) == [embed |-> embed]
Document(shapes, blips) == [shapes |-> shapes, blips |-> blips]

\* extractFontSize of the fast-xml-parser build: hundredths of a point to
\* points (exact for the whole numbers of points the inputs hold)
extractFontSize(rPr) ==
    IF truthyStr(rPr.sz) THEN Some(parseInt(rPr.sz.val) \div 100) ELSE UndefinedNum

extractFontFamily(rPr) == rPr.latin

extractColor(rPr) == rPr.val

\* the runs of the shapes, in document order
RECURSIVE runsOf(_)
runsOf(shapes) ==
    IF shapes = <<>> THEN <<>> ELSE Head(shapes).runs \o runsOf(Tail(shapes))

\* parseSlideXml of the fast-xml-parser build: texts only
parseSlideXml(doc, slideNumber) ==
    [slideNumber |-> slideNumber,
     texts |-> [k \in 1..Len(runsOf(doc.shapes)) |->
                   [content |-> runsOf(doc.shapes)[k].t,
                    fontSize |-> extractFontSize(runsOf(doc.shapes)[k]),
                    fontFamily |-> extractFontFamily(runsOf(doc.shapes)[k]),
                    color |-> extractColor(runsOf(doc.shapes)[k])]],
     images |-> <<>>,
     shapes |-> <<>>]

\* Array.prototype.join
RECURSIVE join(_, _)
join(parts, sep) ==
    IF parts = <<>> THEN <<>>
    ELSE IF Len(parts) = 1 THEN parts[1]
    ELSE parts[1] \o sep \o join(Tail(parts), sep)

\* `texts.join(" ") || undefined`
extractShapeText(shape) ==
    With(join([k \in 1..Len(shape.runs) |-> shape.runs[k].t], <<" ">>),
         LAMBDA joined : IF joined = <<>> THEN UndefinedStr ELSE Some(joined))

\* parseSlideXml of the xml2js build: texts without formatting, the embedded
\* images and the shapes
parseSlideXml2js(doc, slideNumber) ==
    [slideNumber |-> slideNumber,
     texts |-> [k \in 1..Len(SelectSeq(runsOf(doc.shapes), LAMBDA r : r.t # <<>>)) |->
                   [content |-> SelectSeq(runsOf(doc.shapes), LAMBDA r : r.t # <<>>)[k].t,
                    fontSize |-> UndefinedNum,
                    fontFamily |-> UndefinedStr,
                    color |-> UndefinedStr]],
     images |-> [k \in 1..Len(SelectSeq(doc.blips, LAMBDA b : truthyStr(b.embed))) |->
                   [name |-> SelectSeq(doc.blips, LAMBDA b : truthyStr(b.embed))[k].embed.val,
                    type |-> "embedded"]],
     shapes |-> [k \in 1..Len(doc.shapes) |->
                   [type |-> "shape", text |-> extractShapeText(doc.shapes[k])]]]

\* an entry of the package and the package
Entry(name, kind, doc) == [name |-> name, kind |-> kind, doc |-> doc]
Package(build, loads, files, theme) ==
    [build |-> build, loads |-> loads, files |-> files, theme |-> theme]

\* `zip.file(slideFile)`: the entry of that name
entryNamed(pkg, name) ==
    pkg.files[CHOOSE k \in 1..Len(pkg.files) : pkg.files[k].name = name]

\* the value of a ParsedPresentation.theme, and of a failed call
NoTheme == [def |-> FALSE, colors |-> <<>>, fonts |-> <<>>]
EmptyTheme == [def |-> TRUE, colors |-> <<>>, fonts |-> <<>>]
Failure == [ok |-> FALSE, slides |-> <<>>, theme |-> NoTheme]

\* the loop over slideFiles from position i on: the slides pushed, or
\* threw when a part made parseSlideXml throw
RECURSIVE forEachSlideFile(_, _, _, _)
forEachSlideFile(pkg, slideFiles, i, slides) ==
    IF i > Len(slideFiles)
    THEN [threw |-> FALSE, slides |-> slides]
    ELSE With(entryNamed(pkg, slideFiles[i]),
              LAMBDA part :
                 IF part.kind = "empty"
                 THEN forEachSlideFile(pkg, slideFiles, i + 1, slides)
                 ELSE IF part.kind = "unparsable"
                 THEN [threw |-> TRUE, slides |-> slides]
                 ELSE forEachSlideFile(pkg, slideFiles, i + 1,
                        Append(slides,
                               IF pkg.build = "xml2js"
                               THEN parseSlideXml2js(part.doc, i)
                               ELSE parseSlideXml(part.doc, i))))

\* parseThemeXml: "threw" when the XML parser rejects the theme part
parseThemeXml(kind) == IF kind = "unparsable" THEN "threw" ELSE "theme"

\* parsePptxFile: the presentation returned, or Failure for the Error thrown
\* from its catch block
parsePptxFile(pkg) ==
    IF ~pkg.loads
    THEN Failure
    ELSE With(forEachSlideFile(pkg,
                  sortByIndex(SelectSeq([k \in 1..Len(pkg.files) |-> pkg.files[k].name],
                                        isSlideFile)),
                  1, <<>>),
              LAMBDA loop :
                 IF loop.threw
                 THEN Failure
                 ELSE IF pkg.theme = "absent"
                 THEN [ok |-> TRUE, slides |-> loop.slides, theme |-> NoTheme]
                 ELSE IF parseThemeXml(pkg.theme) = "threw"
                 THEN Failure
                 ELSE [ok |-> TRUE, slides |-> loop.slides, theme |-> EmptyTheme])


---------------------------------------------------------------------------
(* Inputs of the rule compiler: the block tokens of a rule text. *)

\* fragments a statement is written with, at most
MaxCues == 3
\* statements (list items and paragraph lines) of a structured rule text
MaxStatements == 3
\* block tokens of a structured rule text
MaxTokens == 2

\* the cue phrases the classifier looks for, a bullet marker, and the empty
\* fragment (which pads a statement with spaces)
Fragments ==
    { <<"t", "e", "x", "t", " ", "c", "o", "l", "o", "r">>, <<"a", "l", "l", "o", "w", "e", "d">>, <<"f", "o", "n", "t", " ", "s", "i", "z", "e">>, <<"t", "i", "t", "l", "e">>, <<"s", "i", "z", "e">>, <<"I", "m", "a", "g", "e">>, <<"p", "i", "c", "t", "u", "r", "e">>,
      <<"n", "o">>, <<"n", "o", "t", " ", "a", "l", "l", "o", "w", "e", "d">>, <<"f", "o", "n", "t">>, <<"f", "a", "m", "i", "l", "y">>, <<"t", "y", "p", "e">>, <<"t", "e", "x", "t">>, <<"c", "o", "l", "o", "r">>,
      <<"f", "o", "r", "b", "i", "d", "d", "e", "n">>, <<"-">>, <<>> }

\* the statements the rules editor documents as supported rule types
DocumentedStatements ==
    { <<"T", "e", "x", "t", " ", "c", "o", "l", "o", "r", "s", " ", "a", "l", "l", "o", "w", "e", "d", ":", " ", "b", "l", "a", "c", "k", ",", " ", "r", "e", "d">>,
      <<"F", "o", "n", "t", " ", "s", "i", "z", "e", " ", "m", "i", "n", "i", "m", "u", "m", ":", " ", "2", "4", "p", "t">>,
      <<"F", "o", "n", "t", " ", "s", "i", "z", "e", " ", "3", "6", " ", "o", "r", " ", "h", "i", "g", "h", "e", "r">>,
      <<"F", "o", "n", "t", " ", "f", "a", "m", "i", "l", "y", " ", "a", "l", "l", "o", "w", "e", "d", ":", " ", "A", "r", "i", "a", "l", ",", " ", "H", "e", "l", "v", "e", "t", "i", "c", "a">>,
      <<"N", "o", " ", "i", "m", "a", "g", "e", "s", " ", "a", "l", "l", "o", "w", "e", "d", " ", "o", "n", " ", "t", "i", "t", "l", "e", " ", "s", "l", "i", "d", "e", "s">> }

\* the items of the list the rules editor offers as its example text
defaultRules ==
    << <<"T", "e", "x", "t", " ", "c", "o", "l", "o", "r", "s", " ", "a", "l", "l", "o", "w", "e", "d", ":", " ", "b", "l", "a", "c", "k", ",", " ", "r", "e", "d">>,
       <<"A", "l", "l", " ", "t", "i", "t", "l", "e", "s", " ", "m", "u", "s", "t", " ", "b", "e", " ", "f", "o", "n", "t", " ", "s", "i", "z", "e", " ", "3", "6", " ", "o", "r", " ", "h", "i", "g", "h", "e", "r">>,
       <<"N", "o", " ", "i", "m", "a", "g", "e", "s", " ", "a", "l", "l", "o", "w", "e", "d", " ", "o", "n", " ", "t", "i", "t", "l", "e", " ", "s", "l", "i", "d", "e", "s">>,
       <<"F", "o", "n", "t", " ", "f", "a", "m", "i", "l", "y", " ", "a", "l", "l", "o", "w", "e", "d", ":", " ", "A", "r", "i", "a", "l", ",", " ", "H", "e", "l", "v", "e", "t", "i", "c", "a">>,
       <<"M", "a", "x", "i", "m", "u", "m", " ", "f", "o", "n", "t", " ", "s", "i", "z", "e", ":", " ", "7", "2", "p", "t">> >>


\* image statements naming the slides they are about
ScopedImageStatements ==
    { <<"N", "o", " ", "i", "m", "a", "g", "e", "s", " ", "o", "n", " ", "c", "o", "n", "t", "e", "n", "t", " ", "s", "l", "i", "d", "e", "s">>,
      <<"P", "i", "c", "t", "u", "r", "e", "s", " ", "a", "r", "e", " ", "f", "o", "r", "b", "i", "d", "d", "e", "n", " ", "o", "n", " ", "c", "o", "n", "t", "e", "n", "t", " ", "s", "l", "i", "d", "e", "s">>,
      <<"N", "o", " ", "i", "m", "a", "g", "e", "s", " ", "o", "n", " ", "t", "i", "t", "l", "e", " ", "s", "l", "i", "d", "e", "s", " ", "a", "n", "d", " ", "c", "o", "n", "t", "e", "n", "t", " ", "s", "l", "i", "d", "e", "s">> }

\* items of an allow-list statement, at most
MaxListItems == 2

\* what an allow-list statement is about, its three forms, the values it
\* lists and the separators between them
ListHeads == { <<"T", "e", "x", "t", " ", "c", "o", "l", "o", "r", "s">>, <<"F", "o", "n", "t", " ", "f", "a", "m", "i", "l", "y">> }
ListForms == { "colon", "only-are", "only" }
ListValues == { <<"B", "l", "a", "c", "k">>, <<"r", "e", "d">>, <<"d", "a", "r", "k", " ", "b", "l", "u", "e">> }
ListSeparators == { <<",">>, <<",", " ">>, <<" ", "&", " ">>, <<" ", "a", "n", "d", " ">> }

\* the values joined by the separator
RECURSIVE joinValues(_, _)
joinValues(values, sep) ==
    IF Len(values) = 1
    THEN values[1]
    ELSE values[1] \o sep \o joinValues(Tail(values), sep)

\* "<head> allowed: <list>", "<head> only <list> are allowed" and
\* "<head> only <list> allowed"
AllowListStatement(head, form, values, sep) ==
    CASE form = "colon" -> head \o <<" ", "a", "l", "l", "o", "w", "e", "d", ":", " ">> \o joinValues(values, sep)
      [] form = "only-are" ->
            head \o <<" ", "o", "n", "l", "y", " ">> \o joinValues(values, sep) \o <<" ", "a", "r", "e", " ", "a", "l", "l", "o", "w", "e", "d">>
      [] OTHER -> head \o <<" ", "o", "n", "l", "y", " ">> \o joinValues(values, sep) \o <<" ", "a", "l", "l", "o", "w", "e", "d">>


\* the fragments fs joined by single spaces
RECURSIVE joinWords(_)
joinWords(fs) ==
    IF fs = <<>> THEN <<>>
    ELSE IF Len(fs) = 1 THEN fs[1]
    ELSE fs[1] \o <<" ">> \o joinWords(Tail(fs))

ListToken(items) == [type |-> "list", items |-> items, text |-> <<>>]
ParagraphToken(text) == [type |-> "paragraph", items |-> <<>>, text |-> text]
SpaceToken == [type |-> "space", items |-> <<>>, text |-> <<"\n">>]
HeadingToken == [type |-> "heading", items |-> <<>>, text |-> <<"R", "u", "l", "e", "s">>]

\* statements of the structured rule texts: an empty list item, a bare
\* bullet marker, and one statement each of kind text and custom
ItemStatements == { <<>>, <<"*">>, <<"T", "e", "x", "t", " ", "r", "e", "q", "u", "i", "r", "e", "d">>, <<"U", "s", "e", " ", "t", "h", "e", " ", "l", "o", "g", "o">> }

\* lines ls joined by newlines
RECURSIVE joinLines(_)
joinLines(ls) ==
    IF Len(ls) = 1 THEN ls[1] ELSE ls[1] \o <<"\n">> \o joinLines(Tail(ls))

\* the block structures of a text of k statements: sequences of n token
\* shapes [type, size] whose sizes add up to k; only lists and paragraphs
\* hold statements
RECURSIVE Shapes(_, _)
Shapes(n, k) ==
    IF n = 0
    THEN IF k = 0 THEN { <<>> } ELSE {}
    ELSE UNION { { <<[type |-> ty, size |-> m]>> \o rest :
                   ty \in IF m = 0 THEN {"space", "heading"} ELSE {"list", "paragraph"},
                   rest \in Shapes(n - 1, k - m) } :
                 m \in 0..k }

\* marked gives no paragraph with a blank line, and reads a bare bullet
\* marker on the first line of a block as a list
paragraphLines(ls) ==
    /\ \A i \in 1..Len(ls) : trim(ls[i]) # <<>>
    /\ ls[1] # <<"*">>

\* the statements sts fit the block structure shape
RECURSIVE fits(_, _)
fits(shape, sts) ==
    IF shape = <<>>
    THEN TRUE
    ELSE /\ Head(shape).type = "paragraph" =>
                paragraphLines(SubSeq(sts, 1, Head(shape).size))
         /\ fits(Tail(shape), SubSeq(sts, Head(shape).size + 1, Len(sts)))

\* the block tokens of the statements sts laid out as shape
RECURSIVE layOut(_, _)
layOut(shape, sts) ==
    IF shape = <<>>
    THEN <<>>
    ELSE LET own == SubSeq(sts, 1, Head(shape).size)
             tk == CASE Head(shape).type = "list" -> ListToken(own)
                     [] Head(shape).type = "paragraph" -> ParagraphToken(joinLines(own))
                     [] Head(shape).type = "space" -> SpaceToken
                     [] OTHER -> HeadingToken
         IN <<tk>> \o layOut(Tail(shape), SubSeq(sts, Head(shape).size + 1, Len(sts)))

---------------------------------------------------------------------------
(* Inputs of the validator: presentations as the package extractor returns *)
(* them and rule lists as the rule compiler returns them.                  *)

\* text runs: every combination class of specified, empty and unspecified
\* formatting (an attribute val="" gives "", a size sz="0" gives 0)
Runs ==
    { [content |-> <<"T", "i", "t", "l", "e">>, color |-> Some(<<"B", "l", "a", "c", "k">>),
       fontFamily |-> Some(<<"A", "r", "i", "a", "l">>), fontSize |-> Some(24)],
      [content |-> <<"B", "o", "d", "y">>, color |-> Some(<<"B", "L", "A", "C", "K", "-", "i", "s", "h">>),
       fontFamily |-> Some(<<"T", "i", "m", "e", "s">>), fontSize |-> Some(40)],
      [content |-> <<"N", "o", "t", "e">>, color |-> Some(<<"R", "e", "d">>),
       fontFamily |-> UndefinedStr, fontSize |-> Some(0)],
      [content |-> <<"D", "a", "t", "e">>, color |-> Some(<<>>),
       fontFamily |-> Some(<<>>), fontSize |-> UndefinedNum],
      [content |-> <<"P", "a", "g", "e">>, color |-> UndefinedStr,
       fontFamily |-> Some(<<"A", "r", "i">>), fontSize |-> Some(12)] }

Digits == <<"1", "2", "3", "4", "5", "6", "7", "8", "9">>

\* the k images of a slide, named by their relationship ids in document order
Images(k) ==
    [i \in 1..k |-> [name |-> <<"r", "I", "d", Digits[i]>>, type |-> "embedded"]]

\* sequences of n distinct elements of S
InjSeqs(S, n) ==
    { s \in [1..n -> S] : \A i, j \in 1..n : i # j => s[i] # s[j] }

\* the texts and images of one slide holding w elements
SlideContents(w) ==
    UNION { { [texts |-> t, images |-> Images(w - k)] : t \in InjSeqs(Runs, k) } :
            k \in 0..w }

\* sequences of n slide contents holding at most budget elements together
RECURSIVE ContentSeqs(_, _)
ContentSeqs(n, budget) ==
    IF n = 0
    THEN { <<>> }
    ELSE UNION { { <<c>> \o rest : c \in SlideContents(w),
                                   rest \in ContentSeqs(n - 1, budget - w) } :
                 w \in 0..budget }

\* ascending slide numbers: slide parts are numbered by position, and a part
\* that is skipped leaves its number unused
Numberings(n) ==
    { s \in [1..n -> 1..MaxSlides] : \A i \in 1..(n - 1) : s[i] < s[i + 1] }

Presentations(budget) ==
    UNION { { [slides |-> [i \in 1..n |->
                              [slideNumber |-> nums[i], texts |-> cs[i].texts,
                               images |-> cs[i].images, shapes |-> <<>>]]] :
              cs \in ContentSeqs(n, budget), nums \in Numberings(n) } :
            n \in 0..MaxSlides }

\* rule bodies as the compiler builds them, and the parameter shapes the
\* DesignRule type allows besides
RuleKinds ==
    { \* color
      [description |-> <<"t", "e", "x", "t", " ", "c", "o", "l", "o", "r", "s", " ", "a", "l", "l", "o", "w", "e", "d", ":", " ", "b", "l", "a", "c", "k">>, type |-> "color",
       parameters |-> Params(Some(<<<<"b", "l", "a", "c", "k">>>>), UndefinedNum, UndefinedNum,
                             UndefinedList, UndefinedList)],
      [description |-> <<"t", "e", "x", "t", " ", "c", "o", "l", "o", "r", " ", "a", "l", "l", "o", "w", "e", "d">>, type |-> "color",
       parameters |-> Params(Some(<<>>), UndefinedNum, UndefinedNum,
                             UndefinedList, UndefinedList)],
      \* font-size
      [description |-> <<"f", "o", "n", "t", " ", "s", "i", "z", "e", " ", "m", "i", "n", "i", "m", "u", "m", " ", "i", "s", " ", "3", "6">>, type |-> "font-size",
       parameters |-> Params(UndefinedList, Some(36), UndefinedNum,
                             UndefinedList, UndefinedList)],
      [description |-> <<"f", "o", "n", "t", " ", "s", "i", "z", "e", " ", "m", "i", "n", " ", "3", "6", " ", "m", "a", "x", " ", "2", "0">>, type |-> "font-size",
       parameters |-> Params(UndefinedList, Some(36), Some(20),
                             UndefinedList, UndefinedList)],
      [description |-> <<"f", "o", "n", "t", " ", "s", "i", "z", "e", " ", "m", "a", "x", " ", "0">>, type |-> "font-size",
       parameters |-> Params(UndefinedList, UndefinedNum, Some(0),
                             UndefinedList, UndefinedList)],
      \* font-family
      [description |-> <<"f", "o", "n", "t", " ", "f", "a", "m", "i", "l", "y", " ", "a", "l", "l", "o", "w", "e", "d", ":", " ", "a", "r", "i", "a", "l", ",", " ", "h", "e", "l", "v", "e", "t", "i", "c", "a">>, type |-> "font-family",
       parameters |-> Params(Some(<<<<"a", "r", "i", "a", "l">>, <<"h", "e", "l", "v", "e", "t", "i", "c", "a">>>>), UndefinedNum, UndefinedNum,
                             UndefinedList, UndefinedList)],
      [description |-> <<"f", "o", "n", "t", " ", "t", "y", "p", "e">>, type |-> "font-family",
       parameters |-> NoParams],
      \* image
      [description |-> <<"n", "o", " ", "i", "m", "a", "g", "e", "s", " ", "a", "l", "l", "o", "w", "e", "d", " ", "o", "n", " ", "t", "i", "t", "l", "e", " ", "s", "l", "i", "d", "e", "s">>, type |-> "image",
       parameters |-> Params(UndefinedList, UndefinedNum, UndefinedNum,
                             Some(<<"all">>), Some(<<"title">>))],
      [description |-> <<"n", "o", " ", "i", "m", "a", "g", "e", "s">>, type |-> "image",
       parameters |-> Params(UndefinedList, UndefinedNum, UndefinedNum,
                             Some(<<"all">>), Some(<<>>))],
      [description |-> <<"n", "o", " ", "p", "i", "c", "t", "u", "r", "e", "s", " ", "o", "n", " ", "t", "i", "t", "l", "e", " ", "s", "l", "i", "d", "e", "s", " ", "o", "r", " ", "a", "l", "l", " ", "s", "l", "i", "d", "e", "s">>, type |-> "image",
       parameters |-> Params(UndefinedList, UndefinedNum, UndefinedNum,
                             Some(<<"images">>), Some(<<"title", "all">>))],
      [description |-> <<"n", "o", " ", "i", "m", "a", "g", "e", "s", " ", "o", "n", " ", "c", "o", "n", "t", "e", "n", "t", " ", "s", "l", "i", "d", "e", "s">>, type |-> "image",
       parameters |-> Params(UndefinedList, UndefinedNum, UndefinedNum,
                             Some(<<"all">>), Some(<<"content">>))],
      [description |-> <<"s", "h", "a", "p", "e", "s", " ", "f", "o", "r", "b", "i", "d", "d", "e", "n", " ", "n", "e", "a", "r", " ", "i", "m", "a", "g", "e", "s">>, type |-> "image",
       parameters |-> Params(UndefinedList, UndefinedNum, UndefinedNum,
                             Some(<<"shapes">>), UndefinedList)],
      \* text
      [description |-> <<"t", "e", "x", "t", " ", "r", "e", "q", "u", "i", "r", "e", "d">>, type |-> "text", parameters |-> NoParams],
      [description |-> <<"t", "e", "x", "t", " ", "o", "n", " ", "e", "v", "e", "r", "y", " ", "s", "l", "i", "d", "e">>, type |-> "text", parameters |-> NoParams],
      \* custom, and the reserved kind no checker handles
      [description |-> <<"u", "s", "e", " ", "t", "h", "e", " ", "l", "o", "g", "o">>, type |-> "custom", parameters |-> NoParams],
      [description |-> <<"s", "l", "i", "d", "e", " ", "t", "y", "p", "e">>, type |-> "slide-type", parameters |-> NoParams] }

\* the rule list made of the kinds ks, with the ids the compiler would give
RuleList(ks) ==
    [i \in 1..Len(ks) |-> Rule(i, ks[i].description, ks[i].type, ks[i].parameters)]

\* elements (text runs and images) a presentation validated against n rules
\* may hold
ElemBudget(n) == IF n = 0 THEN MaxElems ELSE Min(MaxElems, MaxChecks \div n)

---------------------------------------------------------------------------
(* Inputs of the package extractor. *)

\* entries of a package listing
MaxParts == 2
\* shapes and image references of a slide document
MaxShapes == 2
MaxBlips == 2

\* names of entries: slide parts with the indexes 1, 2, 10, 0 and 02, a slide
\* part without an index, and two entries that are not slide parts
PartNames ==
    { <<"p", "p", "t", "/", "s", "l", "i", "d", "e", "s", "/", "s", "l", "i", "d", "e", "1", ".", "x", "m", "l">>, <<"p", "p", "t", "/", "s", "l", "i", "d", "e", "s", "/", "s", "l", "i", "d", "e", "2", ".", "x", "m", "l">>, <<"p", "p", "t", "/", "s", "l", "i", "d", "e", "s", "/", "s", "l", "i", "d", "e", "1", "0", ".", "x", "m", "l">>,
      <<"p", "p", "t", "/", "s", "l", "i", "d", "e", "s", "/", "s", "l", "i", "d", "e", "0", ".", "x", "m", "l">>, <<"p", "p", "t", "/", "s", "l", "i", "d", "e", "s", "/", "s", "l", "i", "d", "e", "0", "2", ".", "x", "m", "l">>, <<"p", "p", "t", "/", "s", "l", "i", "d", "e", "s", "/", "s", "l", "i", "d", "e", "A", ".", "x", "m", "l">>,
      <<"p", "p", "t", "/", "s", "l", "i", "d", "e", "s", "/", "_", "r", "e", "l", "s", "/", "s", "l", "i", "d", "e", "1", ".", "x", "m", "l", ".", "r", "e", "l", "s">>, <<"p", "p", "t", "/", "p", "r", "e", "s", "e", "n", "t", "a", "t", "i", "o", "n", ".", "x", "m", "l">> }

PartKinds == { "empty", "unparsable", "document" }
ThemeKinds == { "absent", "parsable", "unparsable" }

\* a slide document holding its part's name as its only text
NamedDocument(name) ==
    Document(<<Shape(<<Run(name, UndefinedStr, UndefinedStr, UndefinedStr)>>)>>, <<>>)

\* runs with every attribute, with none, and with empty attributes
RunKinds ==
    { Run(<<"T", "i", "t", "l", "e">>, Some(<<"2", "4", "0", "0">>), Some(<<"A", "r", "i", "a", "l">>), Some(<<"F", "F", "0", "0", "0", "0">>)),
      Run(<<"B", "o", "d", "y">>, UndefinedStr, UndefinedStr, UndefinedStr),
      Run(<<"N", "o", "t", "e">>, Some(<<>>), Some(<<>>), Some(<<>>)) }

\* shapes without text, with one run of each kind, and with two runs
ShapeKinds ==
    { Shape(<<>>) } \cup { Shape(<<r>>) : r \in RunKinds }
    \cup { Shape(<<Run(<<"T", "i", "t", "l", "e">>, Some(<<"2", "4", "0", "0">>), Some(<<"A", "r", "i", "a", "l">>), Some(<<"F", "F", "0", "0", "0", "0">>)),
                   Run(<<"B", "o", "d", "y">>, UndefinedStr, UndefinedStr, UndefinedStr)>>) }

\* embedded images, and a linked image (no r:embed)
BlipKinds == { Blip(Some(<<"r", "I", "d", "2">>)), Blip(Some(<<"r", "I", "d", "3">>)), Blip(UndefinedStr) }


---------------------------------------------------------------------------
(* The page: the submit pipeline of Index.                                 *)
(*                                                                         *)
(* handleSubmit awaits parsePptxFile and then runs to its end without      *)
(* another await; what it does after the await is a function of the file  *)
(* and the rule text it was started with.                                  *)

\* the messages of the toasts handleSubmit shows when it ends
ParseFailed == "Failed to parse PowerPoint file. Please ensure it is a valid .pptx file."
NoValidRules == "No valid rules found. Please check your markdown format."
AnalysisComplete == "Analysis complete!"

\* the value of the rules editor: its text and the tokens marked.lexer gives
\* for it
RuleText(text, toks) == [text |-> text, tokens |-> toks]

\* the value of the file input: null, or the package JSZip gives for the file
NoFile == [def |-> FALSE, pkg |-> Package("xml2js", FALSE, <<>>, "absent")]
File(pkg) == [def |-> TRUE, pkg |-> pkg]

\* `!file || !rules.trim()`
nothingToSubmit(f, text) == ~f.def \/ trim(text.text) = <<>>

\* `foundViolations.map(v => ({slide, description, elements}))`
formatViolations(found) ==
    [k \in 1..Len(found) |->
        [slide |-> found[k].slide, description |-> found[k].description,
         elements |-> found[k].elements]]

\* a catch block that stores an empty result before it shows the error
ThrownAfterStoring(message) ==
    [toast |-> message, stores |-> TRUE, violations |-> <<>>,
     validates |-> FALSE, designRules |-> <<>>]

\* how a run of handleSubmit ends: the toast shown, whether setViolations
\* and setHasResults(true) were called and with which violations, and
\* whether validatePresentation was called and with which rules
Thrown(message) ==
    [toast |-> message, stores |-> FALSE, violations |-> <<>>,
     validates |-> FALSE, designRules |-> <<>>]

Completed(designRules, found) ==
    [toast |-> AnalysisComplete, stores |-> TRUE,
     violations |-> formatViolations(found),
     validates |-> TRUE, designRules |-> designRules]

\* a handleSubmit without the test of designRules.length
handleSubmitUnguarded(pkg, text) ==
    With(parsePptxFile(pkg),
         LAMBDA parsed :
            IF ~parsed.ok
            THEN Thrown(ParseFailed)
            ELSE With(parseMarkdownRules(text.tokens),
                      LAMBDA designRules :
                         Completed(designRules,
                                   validatePresentation(parsed, designRules))))

\* the try block of handleSubmit
handleSubmit(pkg, text) ==
    With(parsePptxFile(pkg),
         LAMBDA parsed :
            IF ~parsed.ok
            THEN Thrown(ParseFailed)
            ELSE With(parseMarkdownRules(text.tokens),
                      LAMBDA designRules :
                         IF Len(designRules) = 0
                         THEN Thrown(NoValidRules)
                         ELSE Completed(designRules,
                                        validatePresentation(parsed, designRules))))

\* `!file || !rules.trim() || isProcessing`
isSubmitDisabled(f, text, processing) == nothingToSubmit(f, text) \/ processing

---------------------------------------------------------------------------
(* Inputs of the page. *)

\* a file that is no archive, an archive without slide parts, a deck of one
\* slide with a 24pt title, and a deck whose slide part does not parse
PageFiles ==
    { Package(build, FALSE, <<>>, "absent") : build \in Builds } \cup
    { Package(build, TRUE, <<>>, "absent") : build \in Builds } \cup
    { Package(build, TRUE,
          <<Entry(<<"p", "p", "t", "/", "s", "l", "i", "d", "e", "s", "/", "s", "l", "i", "d", "e", "1", ".", "x", "m", "l">>, kind,
                  Document(<<Shape(<<Run(<<"T", "i", "t", "l", "e">>, Some(<<"2", "4", "0", "0">>), Some(<<"A", "r", "i", "a", "l">>), Some(<<"F", "F", "0", "0", "0", "0">>))>>)>>, <<>>))>>,
          "absent") : build \in Builds, kind \in { "document", "unparsable" } }

\* rule texts: empty, blank, a heading only (no statement), a list of one
\* statement, a paragraph of one statement
PageRuleTexts ==
    { RuleText(<<>>, <<>>),
      RuleText(<<" ", " ">>, <<>>),
      RuleText(<<"#", " ", "R", "u", "l", "e", "s">>, <<HeadingToken>>),
      RuleText(<<"-", " ", "F", "o", "n", "t", " ", "s", "i", "z", "e", " ", "m", "i", "n", " ", "3", "6">>, <<ListToken(<< <<"F", "o", "n", "t", " ", "s", "i", "z", "e", " ", "m", "i", "n", " ", "3", "6">> >>)>>),
      RuleText(<<"T", "e", "x", "t", " ", "m", "u", "s", "t", " ", "b", "e", " ", "r", "e", "a", "d", "a", "b", "l", "e">>, <<ParagraphToken(<<"T", "e", "x", "t", " ", "m", "u", "s", "t", " ", "b", "e", " ", "r", "e", "a", "d", "a", "b", "l", "e">>)>>) }

\* handleSubmit on each file and rule text of the page
runOf == [pkg \in PageFiles, text \in PageRuleTexts |-> handleSubmit(pkg, text)]

---------------------------------------------------------------------------
(* The calls. *)

Init ==
    /\ op = "idle"
    /\ presentation = [slides |-> <<>>]
    /\ rules = <<>>
    /\ violations = <<>>
    /\ tokens = <<>>
    /\ compiled = <<>>
    /\ package = Package("xml2js", FALSE, <<>>, "absent")
    /\ extraction = Failure
    /\ file = NoFile
    /\ rulesText = RuleText(<<>>, <<>>)
    /\ uiViolations = <<>>
    /\ isProcessing = FALSE
    /\ hasResults = FALSE
    /\ pc = "ready"
    /\ submitted = [file |-> NoFile, rules |-> RuleText(<<>>, <<>>)]
    /\ toast = "none"
    /\ validated = [called |-> FALSE, designRules |-> <<>>]

\* the call validatePresentation(pres, ruleList)
ValidateCall(pres, ruleList) ==
    /\ presentation' = pres
    /\ rules' = ruleList
    /\ violations' = validatePresentation(pres, ruleList)
    /\ op' = "validate"
    /\ UNCHANGED <<tokens, compiled, package, extraction, pageVars>>

\* validatePresentation on a presentation of up to MaxSlides slides and a
\* list of up to MaxRules rules
Validate ==
    /\ op = "idle"
    /\ \E n \in 0..MaxRules : \E pres \in Presentations(ElemBudget(n)) :
            \E ks \in [1..n -> RuleKinds] : ValidateCall(pres, RuleList(ks))

\* the call parseMarkdownRules(markdownText), where marked.lexer gives the
\* tokens chosen
CompileCall ==
    /\ compiled' = parseMarkdownRules(tokens')
    /\ op' = "compile"
    /\ UNCHANGED <<presentation, rules, violations, package, extraction, pageVars>>

\* parseMarkdownRules on a one-item list holding a statement written with up
\* to MaxCues fragments, on a structured text of up to MaxStatements
\* statements in up to MaxTokens blocks, on a documented statement, on the
\* example text of the rules editor, on an image statement naming its
\* slides, or on an allow-list statement of up to MaxListItems values
Compile ==
    /\ op = "idle"
    /\ \/ \E k \in 0..MaxCues : \E fs \in [1..k -> Fragments] :
            tokens' = <<ListToken(<<joinWords(fs)>>)>>
       \/ \E n \in 0..MaxTokens : \E k \in 0..MaxStatements :
            \E shape \in Shapes(n, k) : \E sts \in [1..k -> ItemStatements] :
                /\ fits(shape, sts)
                /\ tokens' = layOut(shape, sts)
       \/ \E s \in DocumentedStatements : tokens' = <<ListToken(<<s>>)>>
       \/ tokens' = <<ListToken(defaultRules)>>
       \/ \E s \in ScopedImageStatements : tokens' = <<ListToken(<<s>>)>>
       \/ \E head \in ListHeads : \E form \in ListForms : \E sep \in ListSeparators :
            \E n \in 1..MaxListItems : \E values \in [1..n -> ListValues] :
                tokens' = <<ListToken(<<AllowListStatement(head, form, values, sep)>>)>>
    /\ CompileCall

\* the call parsePptxFile(file), where JSZip gives the package chosen
ExtractCall ==
    /\ extraction' = parsePptxFile(package')
    /\ op' = "extract"
    /\ UNCHANGED <<presentation, rules, violations, tokens, compiled, pageVars>>

\* parsePptxFile on a file that does not load, on a package of up to MaxParts
\* entries in any listing order, or on a package whose single slide part
\* holds up to MaxShapes shapes and MaxBlips image references
Extract ==
    /\ op = "idle"
    /\ \E build \in Builds :
        \/ package' = Package(build, FALSE, <<>>, "absent")
        \/ \E theme \in ThemeKinds : \E n \in 0..MaxParts :
             \E names \in [1..n -> PartNames] : \E kinds \in [1..n -> PartKinds] :
                /\ \A i, j \in 1..n : i # j => names[i] # names[j]
                /\ package' = Package(build, TRUE,
                        [k \in 1..n |-> Entry(names[k], kinds[k], NamedDocument(names[k]))],
                        theme)
        \/ \E ns \in 0..MaxShapes : \E shapes \in [1..ns -> ShapeKinds] :
             \E nb \in 0..MaxBlips : \E blips \in [1..nb -> BlipKinds] :
                package' = Package(build, TRUE,
                    <<Entry(<<"p", "p", "t", "/", "s", "l", "i", "d", "e", "s", "/", "s", "l", "i", "d", "e", "1", ".", "x", "m", "l">>, "document", Document(shapes, blips))>>,
                    "absent")
    /\ ExtractCall

\* the page is in use: the calls above are those of a run of handleSubmit
OnPage ==
    /\ op \in { "idle", "page" }
    /\ op' = "page"
    /\ UNCHANGED callVars

\* onFileChange of the upload panel, shown while there are no results
setFile ==
    /\ OnPage
    /\ ~hasResults
    /\ \E f \in { NoFile } \cup { File(pkg) : pkg \in PageFiles } : file' = f
    /\ UNCHANGED <<rulesText, uiViolations, isProcessing, hasResults, pc,
                   submitted, toast, validated>>

\* onChange of the rules editor, shown while there are no results
setRules ==
    /\ OnPage
    /\ ~hasResults
    /\ \E text \in PageRuleTexts : rulesText' = text
    /\ UNCHANGED <<file, uiViolations, isProcessing, hasResults, pc,
                   submitted, toast, validated>>

\* a click on the submit button, shown while there are no results and
\* enabled unless isSubmitDisabled: handleSubmit, which returns at once when
\* there is nothing to submit, up to its await
SubmitStart ==
    /\ OnPage
    /\ ~hasResults
    /\ ~isSubmitDisabled(file, rulesText, isProcessing)
    /\ ~nothingToSubmit(file, rulesText)
    /\ isProcessing' = TRUE
    /\ submitted' = [file |-> file, rules |-> rulesText]
    /\ pc' = "awaiting"
    /\ UNCHANGED <<file, rulesText, uiViolations, hasResults, toast, validated>>

\* handleSubmit from the await of parsePptxFile to the end of its finally
\* block
SubmitFinish ==
    /\ OnPage
    /\ pc = "awaiting"
    /\ \E run \in { runOf[submitted.file.pkg, submitted.rules] } :
          /\ uiViolations' = IF run.stores THEN run.violations ELSE uiViolations
          /\ hasResults' = IF run.stores THEN TRUE ELSE hasResults
          /\ toast' = run.toast
          /\ validated' = [called |-> run.validates, designRules |-> run.designRules]
    /\ isProcessing' = FALSE
    /\ pc' = "ready"
    /\ UNCHANGED <<file, rulesText, submitted>>

\* the reset button of the results panel, shown while there are results
handleReset ==
    /\ OnPage
    /\ hasResults
    /\ file' = NoFile
    /\ rulesText' = RuleText(<<>>, <<>>)
    /\ uiViolations' = <<>>
    /\ hasResults' = FALSE
    /\ isProcessing' = FALSE
    /\ UNCHANGED <<pc, submitted, toast, validated>>

Next ==
    \/ Validate \/ Compile \/ Extract
    \/ setFile \/ setRules \/ SubmitStart \/ SubmitFinish \/ handleReset

Spec == Init /\ [][Next]_vars

\* the page in use.  The promise handleSubmit awaits settles (parsePptxFile
\* resolves or rejects) and its continuation is then run by the event loop:
\* a run that is awaiting is eventually finished.
PageNext == setFile \/ setRules \/ SubmitStart \/ SubmitFinish \/ handleReset

PageSpec == Init /\ [][PageNext]_vars /\ WF_vars(SubmitFinish)

---------------------------------------------------------------------------
(* Properties of the validator. *)

Validated == op = "validate"

Slides == presentation.slides

\* the violations of rules[i] on slide s, in output order
ViolationsOf(i, s) ==
    SelectSeq(violations, LAMBDA v : v.rule = rules[i] /\ v.slide = s.slideNumber)

\* position of a violation's rule in the rule list
RuleIndex(v) == CHOOSE i \in 1..Len(rules) : rules[i] = v.rule

\* whether violation v reports text run t
ReportsRun(v, t) ==
    CASE v.rule.type = "color" ->
            /\ v.description.foundStr = t.color.val
            /\ v.elements[1].text = substring0(t.content, 50)
      [] v.rule.type = "font-size" ->
            /\ v.description.foundNum = t.fontSize.val
            /\ v.elements[1].text = substring0(t.content, 30)
      [] v.rule.type = "font-family" ->
            /\ t.fontFamily.def
            /\ v.description.foundStr = t.fontFamily.val
      [] OTHER -> FALSE

\* position, in its slide's texts, of the run violation v reports (0: none)
RunIndex(v) ==
    LET s == CHOOSE x \in { Slides[k] : k \in 1..Len(Slides) } : x.slideNumber = v.slide
    IN IF \E k \in 1..Len(s.texts) : ReportsRun(v, s.texts[k])
       THEN CHOOSE k \in 1..Len(s.texts) : ReportsRun(v, s.texts[k])
       ELSE 0

\* C1: the violations are in rule-major, slide-minor order: a violation of an
\* earlier rule precedes every violation of a later rule; within one rule the
\* violations are in ascending slideNumber order; within one rule and slide
\* they are in the order of the slide's text runs.
C1_RuleMajorOrder ==
    Validated =>
        \A p, q \in 1..Len(violations) :
            p < q =>
                LET vp == violations[p]
                    vq == violations[q]
                IN \/ RuleIndex(vp) < RuleIndex(vq)
                   \/ /\ RuleIndex(vp) = RuleIndex(vq)
                      /\ vp.slide < vq.slide
                   \/ /\ RuleIndex(vp) = RuleIndex(vq)
                      /\ vp.slide = vq.slide
                      /\ RunIndex(vp) > 0
                      /\ RunIndex(vp) < RunIndex(vq)

\* two rules each violated on two slides
C1_Witness ==
    /\ Validated
    /\ Len(violations) = 4
    /\ RuleIndex(violations[1]) = 1 /\ RuleIndex(violations[2]) = 1
    /\ RuleIndex(violations[3]) = 2 /\ RuleIndex(violations[4]) = 2
    /\ violations[1].slide = 1 /\ violations[2].slide = 2
    /\ violations[3].slide = 1 /\ violations[4].slide = 2

\* the attribute an allow-list rule reads
ListedAttr(rule, t) == IF rule.type = "color" THEN t.color ELSE t.fontFamily

\* no allowed value is a case-insensitive substring of the observed value
NotAllowed(rule, observed) ==
    \A k \in 1..Len(orEmpty(rule.parameters.allowedValues)) :
        ~includes(toLowerCase(observed),
                  toLowerCase(orEmpty(rule.parameters.allowedValues)[k]))

\* what an allow-list rule must report on slide s when the runs in `offending`
\* are the offending ones: one error per offending run, in run order
AllowListOutcome(i, s, offending(_)) ==
    LET expected ==
            IF Len(orEmpty(rules[i].parameters.allowedValues)) = 0
            THEN <<>>
            ELSE SelectSeq(s.texts, offending)
        got == ViolationsOf(i, s)
    IN /\ Len(got) = Len(expected)
       /\ \A k \in 1..Len(got) :
            /\ got[k].severity = "error"
            /\ got[k].description.foundStr = ListedAttr(rules[i], expected[k]).val

AllowListRules ==
    { i \in 1..Len(rules) : rules[i].type \in {"color", "font-family"} }

\* C2 as stated: a run offends exactly when its color (fontFamily) is defined
\* and no allowed value is a case-insensitive substring of it.
C2_AsStated ==
    Validated =>
        \A i \in AllowListRules : \A n \in 1..Len(Slides) :
            AllowListOutcome(i, Slides[n],
                LAMBDA t : /\ ListedAttr(rules[i], t).def
                           /\ NotAllowed(rules[i], ListedAttr(rules[i], t).val))

\* C2, amended: a run offends exactly when its color (fontFamily) is defined
\* and not the empty string, and no allowed value is a case-insensitive
\* substring of it; each offending run gives exactly one violation, of
\* severity error; a run with unspecified color (fontFamily) gives none, and
\* a rule with an empty allow-list gives none at all.
C2_AllowListMatching ==
    Validated =>
        \A i \in AllowListRules : \A n \in 1..Len(Slides) :
            AllowListOutcome(i, Slides[n],
                LAMBDA t : /\ ListedAttr(rules[i], t).def
                           /\ ListedAttr(rules[i], t).val # <<>>
                           /\ NotAllowed(rules[i], ListedAttr(rules[i], t).val))

\* a color rule allowing "black" accepts a run whose color differs from it in
\* case only, and reports the run of another slide
C2_Witness ==
    /\ Validated
    /\ \E i \in AllowListRules : \E n, m \in 1..Len(Slides) :
        /\ rules[i].type = "color"
        /\ Len(orEmpty(rules[i].parameters.allowedValues)) > 0
        /\ Len(Slides[n].texts) = 1
        /\ Slides[n].texts[1].color.def
        /\ Slides[n].texts[1].color.val # <<>>
        /\ ~arrayIncludes(rules[i].parameters.allowedValues.val, Slides[n].texts[1].color.val)
        /\ ViolationsOf(i, Slides[n]) = <<>>
        /\ Len(ViolationsOf(i, Slides[m])) = 1

FontSizeRules == { i \in 1..Len(rules) : rules[i].type = "font-size" }

\* C3 as stated: a run violates a font-size rule exactly when its fontSize is
\* defined and it is below a defined minValue or above a defined maxValue;
\* each violating run gives one error that reports the run's size and a bound
\* it violates.
C3_AsStated ==
    Validated =>
        \A i \in FontSizeRules : \A n \in 1..Len(Slides) :
            LET minV == rules[i].parameters.minValue
                maxV == rules[i].parameters.maxValue
                below(t) == minV.def /\ t.fontSize.val < minV.val
                above(t) == maxV.def /\ t.fontSize.val > maxV.val
                expected ==
                    SelectSeq(Slides[n].texts,
                              LAMBDA t : t.fontSize.def /\ (below(t) \/ above(t)))
                got == ViolationsOf(i, Slides[n])
            IN /\ Len(got) = Len(expected)
               /\ \A k \in 1..Len(got) :
                    /\ got[k].severity = "error"
                    /\ got[k].description.foundNum = expected[k].fontSize.val
                    /\ \/ below(expected[k]) /\ got[k].description.bound = minV.val
                       \/ above(expected[k]) /\ got[k].description.bound = maxV.val

ImageRules == { i \in 1..Len(rules) : rules[i].type = "image" }

ForbidsImages(rule) ==
    \/ arrayIncludes(orEmpty(rule.parameters.forbidden), "all")
    \/ arrayIncludes(orEmpty(rule.parameters.forbidden), "images")

\* C4 as stated: a title-scoped image rule gives one violation on slide 1 when
\* slide 1 has an image, and none on a slide whose number is not 1.
C4_AsStated ==
    Validated =>
        \A i \in ImageRules : \A n \in 1..Len(Slides) :
            ( /\ arrayIncludes(orEmpty(rules[i].parameters.forbidden), "all")
              /\ arrayIncludes(orEmpty(rules[i].parameters.slideTypes), "title")
              /\ ~arrayIncludes(orEmpty(rules[i].parameters.slideTypes), "all") )
            => IF Slides[n].slideNumber = 1
               THEN Len(Slides[n].images) > 0 => Len(ViolationsOf(i, Slides[n])) = 1
               ELSE ViolationsOf(i, Slides[n]) = <<>>

\* C5: an image rule gives violations only when its forbidden list contains
\* "all" or "images"; when it does and slideTypes is empty or contains "all",
\* every slide with an image gives exactly one violation listing one element
\* per image in image order, and every slide without an image gives none.
C5_ImageRuleEverySlide ==
    Validated =>
        \A i \in ImageRules : \A n \in 1..Len(Slides) :
            LET got == ViolationsOf(i, Slides[n])
                imgs == Slides[n].images
                types == orEmpty(rules[i].parameters.slideTypes)
            IN /\ got # <<>> => ForbidsImages(rules[i])
               /\ (ForbidsImages(rules[i])
                   /\ (Len(types) = 0 \/ arrayIncludes(types, "all")))
                  => IF Len(imgs) > 0
                     THEN /\ Len(got) = 1
                          /\ Len(got[1].elements) = Len(imgs)
                          /\ \A k \in 1..Len(imgs) :
                                got[1].elements[k].text = imgs[k].name
                     ELSE got = <<>>

\* a rule forbidding "images" on all slides reports both images of a slide
\* that is not slide 1
C5_Witness ==
    /\ Validated
    /\ \E i \in ImageRules : \E n \in 1..Len(Slides) :
        /\ arrayIncludes(orEmpty(rules[i].parameters.forbidden), "images")
        /\ arrayIncludes(orEmpty(rules[i].parameters.slideTypes), "all")
        /\ Slides[n].slideNumber # 1
        /\ Len(Slides[n].images) = 2
        /\ Len(ViolationsOf(i, Slides[n])) = 1
        /\ Len(ViolationsOf(i, Slides[n])[1].elements) = 2

TextRules == { i \in 1..Len(rules) : rules[i].type = "text" }

\* C6: a text rule gives a violation on a slide exactly when the slide has no
\* text run and the rule's description contains "required", and then exactly
\* one, of severity warning; in every output a violation has severity warning
\* exactly when its rule has type text, and error otherwise.
C6_TextRuleWarning ==
    Validated =>
        /\ \A i \in TextRules : \A n \in 1..Len(Slides) :
            LET got == ViolationsOf(i, Slides[n])
            IN IF Len(Slides[n].texts) = 0 /\ includes(rules[i].description, Required)
               THEN Len(got) = 1 /\ got[1].severity = "warning"
               ELSE got = <<>>
        /\ \A p \in 1..Len(violations) :
            /\ violations[p].severity = "warning" <=> violations[p].rule.type = "text"
            /\ violations[p].rule.type # "text" => violations[p].severity = "error"

\* a warning of a text rule next to an error of another rule, and a slide
\* with text that the text rule accepts
C6_Witness ==
    /\ Validated
    /\ \E p, q \in 1..Len(violations) :
        /\ violations[p].rule.type = "text" /\ violations[p].severity = "warning"
        /\ violations[q].rule.type # "text" /\ violations[q].severity = "error"
    /\ \E i \in TextRules : \E n \in 1..Len(Slides) :
        Len(Slides[n].texts) > 0 /\ ViolationsOf(i, Slides[n]) = <<>>

\* C7: no violation comes from a rule of type custom, and the output equals
\* the output for the rule list with its custom rules removed.
C7_CustomNeverViolates ==
    Validated =>
        /\ \A p \in 1..Len(violations) : violations[p].rule.type # "custom"
        /\ violations =
            validatePresentation(presentation,
                                 SelectSeq(rules, LAMBDA r : r.type # "custom"))

\* a custom rule ahead of a rule that is violated
C7_Witness ==
    /\ Validated
    /\ Len(rules) = 2
    /\ rules[1].type = "custom"
    /\ Len(Slides) > 0
    /\ Len(violations) > 0

---------------------------------------------------------------------------
(* Properties of the rule compiler. *)

CompileDone == op = "compile"

\* the statements of the rule text in source order: the items of its lists
\* and the lines of its paragraphs
RECURSIVE StatementsOf(_)
StatementsOf(toks) ==
    IF toks = <<>>
    THEN <<>>
    ELSE (IF Head(toks).type = "list" THEN Head(toks).items
          ELSE IF Head(toks).type = "paragraph" THEN splitLines(Head(toks).text)
          ELSE <<>>)
         \o StatementsOf(Tail(toks))

\* a statement lower-cased and trimmed, and then stripped of its bullet marker
Normalized(s) == trim(toLowerCase(s))
Stripped(s) == trim(stripBullet(Normalized(s)))

NonEmptyStatements == SelectSeq(StatementsOf(tokens), LAMBDA s : Normalized(s) # <<>>)
ContentStatements == SelectSeq(StatementsOf(tokens), LAMBDA s : Stripped(s) # <<>>)

\* the patterns of the classifier, in precedence order
Pattern(n, c) ==
    CASE n = 1 -> includes(c, <<"t", "e", "x", "t", " ", "c", "o", "l", "o", "r">>) /\ includes(c, <<"a", "l", "l", "o", "w", "e", "d">>)
      [] n = 2 -> \/ includes(c, <<"f", "o", "n", "t", " ", "s", "i", "z", "e">>)
                  \/ includes(c, <<"t", "i", "t", "l", "e">>) /\ includes(c, <<"s", "i", "z", "e">>)
      [] n = 3 -> /\ includes(c, <<"i", "m", "a", "g", "e">>) \/ includes(c, <<"p", "i", "c", "t", "u", "r", "e">>)
                  /\ \/ includes(c, <<"n", "o", " ">>)
                     \/ includes(c, <<"n", "o", "t", " ", "a", "l", "l", "o", "w", "e", "d">>)
                     \/ includes(c, <<"f", "o", "r", "b", "i", "d", "d", "e", "n">>)
      [] n = 4 -> /\ includes(c, <<"f", "o", "n", "t">>)
                  /\ includes(c, <<"f", "a", "m", "i", "l", "y">>) \/ includes(c, <<"t", "y", "p", "e">>)
      [] n = 5 -> includes(c, <<"t", "e", "x", "t">>) /\ ~includes(c, <<"c", "o", "l", "o", "r">>) /\ ~includes(c, <<"s", "i", "z", "e">>)
      [] OTHER -> TRUE

PatternType == <<"color", "font-size", "image", "font-family", "text", "custom">>

\* the type of the lowest-numbered pattern c satisfies
FirstMatchType(c) ==
    PatternType[CHOOSE n \in 1..6 : Pattern(n, c) /\ \A m \in 1..(n - 1) : ~Pattern(m, c)]

\* the rules are, one for one and in order, those of the statements sts
OneRulePerStatement(sts) ==
    /\ Len(compiled) = Len(sts)
    /\ \A k \in 1..Len(compiled) :
        /\ compiled[k].description = Stripped(sts[k])
        /\ (\A n \in 1..5 : ~Pattern(n, Stripped(sts[k])))
            => compiled[k].type = "custom" /\ compiled[k].parameters = NoParams

\* C8 as stated: one rule per non-empty statement, in source order; a
\* non-empty statement matching no pattern becomes a custom rule with empty
\* parameters.
C8_AsStated == CompileDone => OneRulePerStatement(NonEmptyStatements)

\* C8, amended: parseMarkdownRules returns exactly one rule per statement
\* (each item of a top-level list, each line of a top-level paragraph) that
\* is non-empty once lower-cased, trimmed and stripped of a leading bullet
\* marker, in source order; such a statement matching none of the five
\* patterns becomes a custom rule with empty parameters; a statement made of
\* a bullet marker alone yields no rule; a text with no such statement
\* yields the empty list.
C8_NoStatementLost == CompileDone => OneRulePerStatement(ContentStatements)

\* a list and a paragraph compiled together, with a bare bullet marker
\* dropped and an unrecognized statement kept as a custom rule
C8_Witness ==
    /\ CompileDone
    /\ \E i, j \in 1..Len(tokens) : tokens[i].type = "list" /\ tokens[j].type = "paragraph"
    /\ \E k \in 1..Len(StatementsOf(tokens)) : StatementsOf(tokens)[k] = <<"*">>
    /\ Len(compiled) = 2
    /\ \E k \in 1..2 : compiled[k].type = "custom"

\* C9 as stated: every statement is given the type of the lowest-numbered
\* pattern it satisfies, custom when it satisfies none of the first five.
C9_AsStated ==
    CompileDone =>
        /\ Len(compiled) = Len(NonEmptyStatements)
        /\ \A k \in 1..Len(compiled) :
            compiled[k].type = FirstMatchType(Stripped(NonEmptyStatements[k]))

\* C9, amended: every statement that is non-empty once lower-cased, trimmed
\* and stripped of its bullet marker is given the type of the lowest-numbered
\* of the six patterns it satisfies, (6) being "otherwise custom"; a statement
\* that is empty once stripped is given no type: it yields no rule.
C9_FirstMatchWins ==
    CompileDone =>
        /\ Len(compiled) = Len(ContentStatements)
        /\ \A k \in 1..Len(compiled) :
            /\ compiled[k].description = Stripped(ContentStatements[k])
            /\ compiled[k].type = FirstMatchType(Stripped(ContentStatements[k]))

\* a statement satisfying the color pattern and the font-size pattern is a
\* color rule
C9_Witness ==
    /\ CompileDone
    /\ Len(compiled) = 1
    /\ Pattern(1, compiled[1].description)
    /\ Pattern(2, compiled[1].description)
    /\ compiled[1].type = "color"

\* C10 as stated: the rules carry the ids rule-1, rule-2, ..., rule-k in
\* list order, none repeated and none skipped.
C10_AsStated ==
    CompileDone => \A k \in 1..Len(compiled) : compiled[k].id = <<"rule-", k>>

\* C18 as stated: a run below minValue and above maxValue gives exactly one
\* violation, the one of the minimum check: its description reports the
\* minimum bound.
C18_AsStated ==
    Validated =>
        \A i \in FontSizeRules : \A n \in 1..Len(Slides) :
            LET minV == rules[i].parameters.minValue
                maxV == rules[i].parameters.maxValue
                texts == Slides[n].texts
            IN (/\ Len(texts) = 1
                /\ texts[1].fontSize.def /\ minV.def /\ maxV.def
                /\ texts[1].fontSize.val < minV.val
                /\ texts[1].fontSize.val > maxV.val)
               => /\ Len(ViolationsOf(i, Slides[n])) = 1
                  /\ ViolationsOf(i, Slides[n])[1].description.msg
                        = "Font size is below minimum requirement"
                  /\ ViolationsOf(i, Slides[n])[1].description.bound = minV.val

---------------------------------------------------------------------------
(* Properties of the documented statements. *)

\* what the documentation promises of the rule r compiled from statement s
Promised(s, r) ==
    /\ s = <<"T", "e", "x", "t", " ", "c", "o", "l", "o", "r", "s", " ", "a", "l", "l", "o", "w", "e", "d", ":", " ", "b", "l", "a", "c", "k", ",", " ", "r", "e", "d">>
        => /\ r.type = "color"
           /\ r.parameters.allowedValues = Some(<<<<"b", "l", "a", "c", "k">>, <<"r", "e", "d">>>>)
    /\ s = <<"F", "o", "n", "t", " ", "s", "i", "z", "e", " ", "m", "i", "n", "i", "m", "u", "m", ":", " ", "2", "4", "p", "t">>
        => r.type = "font-size" /\ r.parameters.minValue = Some(24)
    /\ s \in {<<"F", "o", "n", "t", " ", "s", "i", "z", "e", " ", "3", "6", " ", "o", "r", " ", "h", "i", "g", "h", "e", "r">>, <<"A", "l", "l", " ", "t", "i", "t", "l", "e", "s", " ", "m", "u", "s", "t", " ", "b", "e", " ", "f", "o", "n", "t", " ", "s", "i", "z", "e", " ", "3", "6", " ", "o", "r", " ", "h", "i", "g", "h", "e", "r">>}
        => r.type = "font-size" /\ r.parameters.minValue = Some(36)
    /\ s = <<"M", "a", "x", "i", "m", "u", "m", " ", "f", "o", "n", "t", " ", "s", "i", "z", "e", ":", " ", "7", "2", "p", "t">>
        => r.type = "font-size" /\ r.parameters.maxValue = Some(72)
    /\ s = <<"F", "o", "n", "t", " ", "f", "a", "m", "i", "l", "y", " ", "a", "l", "l", "o", "w", "e", "d", ":", " ", "A", "r", "i", "a", "l", ",", " ", "H", "e", "l", "v", "e", "t", "i", "c", "a">>
        => /\ r.type = "font-family"
           /\ r.parameters.allowedValues = Some(<<<<"a", "r", "i", "a", "l">>, <<"h", "e", "l", "v", "e", "t", "i", "c", "a">>>>)
    /\ s = <<"N", "o", " ", "i", "m", "a", "g", "e", "s", " ", "a", "l", "l", "o", "w", "e", "d", " ", "o", "n", " ", "t", "i", "t", "l", "e", " ", "s", "l", "i", "d", "e", "s">>
        => /\ r.type = "image"
           /\ r.parameters.forbidden = Some(<<"all">>)
           /\ r.parameters.slideTypes = Some(<<"title">>)

\* the rule text is one list of documented statements and examples
DocumentedText ==
    /\ Len(tokens) = 1
    /\ tokens[1].type = "list"
    /\ \A k \in 1..Len(tokens[1].items) :
        \/ tokens[1].items[k] \in DocumentedStatements
        \/ \E j \in 1..Len(defaultRules) : tokens[1].items[k] = defaultRules[j]

\* C11 as stated: every documented statement and every example compiles to a
\* rule of the documented kind that carries the constraint the statement
\* expresses.
C11_AsStated ==
    (CompileDone /\ DocumentedText) =>
        /\ Len(compiled) = Len(tokens[1].items)
        /\ \A k \in 1..Len(compiled) : Promised(tokens[1].items[k], compiled[k])

---------------------------------------------------------------------------
(* Properties of allow-list extraction. *)

\* the rule text is one statement holding a colon or the word "only"
MayBeAllowList ==
    /\ Len(tokens) = 1
    /\ tokens[1].type = "list"
    /\ Len(tokens[1].items) = 1
    /\ \/ includes(tokens[1].items[1], <<" ", "a", "l", "l", "o", "w", "e", "d", ":", " ">>)
       \/ includes(tokens[1].items[1], <<" ", "o", "n", "l", "y", " ">>)

\* the forms of allow-list statement for which the compiled rule must hold
\* exactly the listed values, lower-cased as the whole statement is
ListsItsValues(forms) ==
    (CompileDone /\ MayBeAllowList) =>
        \A head \in ListHeads : \A form \in forms : \A sep \in ListSeparators :
            \A n \in 1..MaxListItems : \A values \in [1..n -> ListValues] :
                tokens[1].items[1] = AllowListStatement(head, form, values, sep)
                => /\ Len(compiled) = 1
                   /\ compiled[1].type = IF head = <<"T", "e", "x", "t", " ", "c", "o", "l", "o", "r", "s">> THEN "color"
                                         ELSE "font-family"
                   /\ compiled[1].parameters.allowedValues
                        = Some([k \in 1..n |-> toLowerCase(values[k])])

\* C19 as stated: for "... allowed: <list>", "only <list> are allowed" and
\* "only <list> allowed", allowedValues is exactly the sequence of the list
\* items in source order, and no item holds a trailing word of the pattern.
C19_AsStated == ListsItsValues(ListForms)

---------------------------------------------------------------------------
(* Properties of the package extractor.                                    *)

\* parsePptxFile has returned a presentation
Extracted == op = "extract" /\ extraction.ok

\* the slide parts of the package, in listing order
SlideParts ==
    SelectSeq(package.files, LAMBDA e : isSlideFile(e.name))

\* C12: the slide numbers of the slides parsePptxFile returns are 1..N in
\* ascending order, N being the number of slides returned, so that a slide
\* part that is skipped leaves no hole in the numbering.  As stated; the
\* code numbers a slide by the position of its part among the slide parts,
\* skipped parts included.
C12_AsStated ==
    Extracted =>
        \A k \in 1..Len(extraction.slides) : extraction.slides[k].slideNumber = k


\* the slide parts of the package of the given kind
PartsOfKind(kind) == SelectSeq(SlideParts, LAMBDA e : e.kind = kind)

\* C13: when the package loads and the XML of a slide part does not parse
\* (the theme part, if any, being parsable), parsePptxFile succeeds and
\* returns one slide for each parsable slide part.  As stated; in the code
\* the rejection of parseSlideXml reaches the catch block of parsePptxFile.
C13_AsStated ==
    (/\ op = "extract"
     /\ package.loads
     /\ package.theme # "unparsable"
     /\ PartsOfKind("unparsable") # <<>>)
        => /\ extraction.ok
           /\ Len(extraction.slides) = Len(PartsOfKind("document"))

\* C14: parsePptxFile fails whenever the package does not load or holds no
\* slide part; it never returns an empty list of slides.  As stated; the
\* code returns { slides: [], theme } for a package without slide parts.
C14_AsStated ==
    op = "extract" =>
        /\ (~package.loads \/ SlideParts = <<>>) => ~extraction.ok
        /\ extraction.ok => extraction.slides # <<>>

\* C14, the part that holds: a package that does not load makes
\* parsePptxFile fail.
C14_UnreadableFails ==
    (op = "extract" /\ ~package.loads) => ~extraction.ok

\* C15: when the package loads and its slide parts parse, parsePptxFile
\* returns the slides whatever the theme part holds, without a theme when
\* the theme part does not parse.  As stated; in the code the rejection of
\* parseThemeXml reaches the catch block of parsePptxFile.
C15_AsStated ==
    (/\ op = "extract"
     /\ package.loads
     /\ PartsOfKind("unparsable") = <<>>)
        => /\ extraction.ok
           /\ Len(extraction.slides) = Len(PartsOfKind("document"))
           /\ package.theme = "unparsable" => extraction.theme \in { NoTheme, EmptyTheme }

\* C15, the part that holds: with a theme part that parses, or none, the
\* slides are returned.
C15_ParsableTheme ==
    (/\ op = "extract"
     /\ package.loads
     /\ PartsOfKind("unparsable") = <<>>
     /\ package.theme # "unparsable")
        => /\ extraction.ok
           /\ Len(extraction.slides) = Len(PartsOfKind("document"))


\* the package holds one slide part, a slide document, which was returned
OneSlideReturned ==
    /\ Extracted
    /\ Len(SlideParts) = 1
    /\ SlideParts[1].kind = "document"
    /\ Len(extraction.slides) = 1

\* C16: the slide returned for a slide part has one image for each
\* image-reference node of the part and one shape for each shape node, so
\* that a part holding an image is returned with a non-empty images list.
\* As stated; the fast-xml-parser build never fills images nor shapes, and
\* the xml2js build passes over an image reference without r:embed.
C16_AsStated ==
    OneSlideReturned =>
        /\ Len(extraction.slides[1].images) = Len(SlideParts[1].doc.blips)
        /\ Len(extraction.slides[1].shapes) = Len(SlideParts[1].doc.shapes)

\* C16, the part that holds: the xml2js build returns one shape for each
\* shape node and one image for each image reference that has an r:embed
\* attribute.
C16_Xml2jsBuild ==
    (OneSlideReturned /\ package.build = "xml2js") =>
        /\ Len(extraction.slides[1].images) =
              Len(SelectSeq(SlideParts[1].doc.blips, LAMBDA b : truthyStr(b.embed)))
        /\ Len(extraction.slides[1].shapes) = Len(SlideParts[1].doc.shapes)


\* every entry of the package holds its own name as its only text, so that
\* the texts of the returned slides tell which part each slide came from
NamedPackage ==
    \A k \in 1..Len(package.files) :
        package.files[k].doc = NamedDocument(package.files[k].name)

\* the names of the parts the returned slides came from, in the order of
\* the returned list
ReturnedNames ==
    [k \in 1..Len(extraction.slides) |-> extraction.slides[k].texts[1].content]

\* the name holds an index that `slide(\d+)\.xml` finds
indexed(name) == \E i \in 1..Len(name) : slideIndexAt(name, i)

\* the position of the entry of that name in the listing
listingPosition(name) ==
    CHOOSE k \in 1..Len(package.files) : package.files[k].name = name

\* the returned slides are those of the slide parts that are not empty
ReturnsTheSlideParts ==
    /\ Len(extraction.slides) = Len(PartsOfKind("document"))
    /\ { ReturnedNames[k] : k \in 1..Len(extraction.slides) } =
           { PartsOfKind("document")[k].name : k \in 1..Len(PartsOfKind("document")) }

\* the returned slides are in ascending order of the index of their part
AscendingIndex ==
    \A k, l \in 1..Len(extraction.slides) :
        k < l => slideIndex(ReturnedNames[k]) <= slideIndex(ReturnedNames[l])

\* C20: the returned slides are in ascending order of the index in the name
\* of their part, and the slide of a part without a parsable index comes
\* before the slide of every part with one.  As stated; a part without an
\* index and slide0.xml have the same index 0 and keep their listing order.
C20_AsStated ==
    (Extracted /\ NamedPackage) =>
        /\ ReturnsTheSlideParts
        /\ AscendingIndex
        /\ \A k, l \in 1..Len(extraction.slides) :
              (~indexed(ReturnedNames[k]) /\ indexed(ReturnedNames[l])) => k < l

\* C20: the returned slides are those of the non-empty slide parts in
\* ascending order of the index in the name of their part, a name without a
\* parsable index counting as index 0; slides of parts of equal index are in
\* listing order.
C20_AscendingIndexOrder ==
    (Extracted /\ NamedPackage) =>
        /\ ReturnsTheSlideParts
        /\ AscendingIndex
        /\ \A k, l \in 1..Len(extraction.slides) :
              (k < l /\ slideIndex(ReturnedNames[k]) = slideIndex(ReturnedNames[l]))
                  => listingPosition(ReturnedNames[k]) < listingPosition(ReturnedNames[l])

\* slide10.xml listed before slide2.xml, returned after it
C20_Witness ==
    /\ Extracted
    /\ NamedPackage
    /\ Len(package.files) = 2
    /\ package.files[1].name = <<"p", "p", "t", "/", "s", "l", "i", "d", "e", "s", "/", "s", "l", "i", "d", "e", "1", "0", ".", "x", "m", "l">>
    /\ package.files[2].name = <<"p", "p", "t", "/", "s", "l", "i", "d", "e", "s", "/", "s", "l", "i", "d", "e", "2", ".", "x", "m", "l">>
    /\ ReturnedNames = << <<"p", "p", "t", "/", "s", "l", "i", "d", "e", "s", "/", "s", "l", "i", "d", "e", "2", ".", "x", "m", "l">>, <<"p", "p", "t", "/", "s", "l", "i", "d", "e", "s", "/", "s", "l", "i", "d", "e", "1", "0", ".", "x", "m", "l">> >>


---------------------------------------------------------------------------
(* Properties of the page. *)

\* the run of handleSubmit that is awaiting was started with a rule text
\* that is not blank and compiles to no rule
ZeroRulesRun ==
    /\ pc = "awaiting"
    /\ trim(submitted.rules.text) # <<>>
    /\ parseMarkdownRules(submitted.rules.tokens) = <<>>

\* C17: a run of handleSubmit whose non-blank rule text compiles to zero
\* rules ends with an error toast, without calling validatePresentation,
\* with violations and hasResults as they were and isProcessing false; and
\* no run calls validatePresentation with an empty rule list.
C17_ZeroRulesIsAnError ==
    /\ [](validated.called => validated.designRules # <<>>)
    /\ [][(ZeroRulesRun /\ pc' = "ready") =>
            /\ toast' \in { NoValidRules, ParseFailed }
            /\ ~validated'.called
            /\ uiViolations' = uiViolations
            /\ hasResults' = hasResults
            /\ ~isProcessing']_vars

\* a run on a deck that parses and the rule text "# Rules" has ended with
\* the error of the zero rules
C17_Witness ==
    /\ pc = "ready"
    /\ toast = NoValidRules
    /\ submitted.file.def
    /\ parsePptxFile(submitted.file.pkg).ok
    /\ submitted.rules.text = <<"#", " ", "R", "u", "l", "e", "s">>
    /\ ~validated.called
    /\ ~hasResults
    /\ ~isProcessing


---------------------------------------------------------------------------
(* Properties of the run formatting. *)

\* the runs of the only slide part and the texts of the slide returned for it
RunsOfPart == runsOf(SlideParts[1].doc.shapes)
TextsOfSlide == extraction.slides[1].texts

\* C21: the text returned for a run has the run's sz attribute divided by
\* 100 as its fontSize (2400 gives 24), and its fontSize, fontFamily and
\* color are undefined exactly when the run has no sz, a:latin typeface and
\* a:srgbClr val attribute.  As stated; the xml2js build returns undefined
\* for all three whatever the run holds, and the fast-xml-parser build
\* returns an undefined fontSize for sz="".
C21_AsStated ==
    OneSlideReturned =>
        /\ Len(TextsOfSlide) = Len(RunsOfPart)
        /\ \A k \in 1..Len(TextsOfSlide) :
              /\ TextsOfSlide[k].fontSize.def = RunsOfPart[k].sz.def
              /\ truthyStr(RunsOfPart[k].sz) =>
                    TextsOfSlide[k].fontSize = Some(parseInt(RunsOfPart[k].sz.val) \div 100)
              /\ TextsOfSlide[k].fontFamily = RunsOfPart[k].latin
              /\ TextsOfSlide[k].color = RunsOfPart[k].val

\* C21, the part that holds: the fast-xml-parser build returns the typeface
\* and the colour of the run as they are, undefined when absent, and the sz
\* attribute divided by 100 when it is not empty, undefined otherwise.
C21_FastXmlBuild ==
    (OneSlideReturned /\ package.build = "fast-xml-parser") =>
        /\ Len(TextsOfSlide) = Len(RunsOfPart)
        /\ \A k \in 1..Len(TextsOfSlide) :
              /\ TextsOfSlide[k].fontSize =
                    IF truthyStr(RunsOfPart[k].sz)
                    THEN Some(parseInt(RunsOfPart[k].sz.val) \div 100)
                    ELSE UndefinedNum
              /\ TextsOfSlide[k].fontFamily = RunsOfPart[k].latin
              /\ TextsOfSlide[k].color = RunsOfPart[k].val

\* C21, the xml2js build: no text has a fontSize, a fontFamily or a color
C21_Xml2jsBuild ==
    (OneSlideReturned /\ package.build = "xml2js") =>
        \A k \in 1..Len(TextsOfSlide) :
           /\ TextsOfSlide[k].fontSize = UndefinedNum
           /\ TextsOfSlide[k].fontFamily = UndefinedStr
           /\ TextsOfSlide[k].color = UndefinedStr


---------------------------------------------------------------------------
(* Properties of image rules that name a slide type. *)

\* the slide types of the rule are given and hold neither "all" nor "title"
NeitherAllNorTitle(rule) ==
    /\ orEmpty(rule.parameters.slideTypes) # <<>>
    /\ ~arrayIncludes(orEmpty(rule.parameters.slideTypes), "all")
    /\ ~arrayIncludes(orEmpty(rule.parameters.slideTypes), "title")

\* the rule text compiled was one of the image statements naming its slides
ScopedImageCompiled ==
    /\ CompileDone
    /\ Len(tokens) = 1
    /\ tokens[1].type = "list"
    /\ Len(tokens[1].items) = 1
    /\ tokens[1].items[1] \in ScopedImageStatements

\* C22: an image rule whose slideTypes is not empty and holds neither "all"
\* nor "title" gives no violation on any slide, slide 1 included, whatever
\* images the slides hold; an image statement about content slides only
\* compiles to such a rule.
C22_ContentOnlyNeverFires ==
    /\ Validated =>
          \A i \in ImageRules :
             NeitherAllNorTitle(rules[i]) =>
                \A k \in 1..Len(violations) : violations[k].rule # rules[i]
    /\ ScopedImageCompiled =>
          /\ Len(compiled) = 1
          /\ compiled[1].type = "image"
          /\ ~includes(toLowerCase(tokens[1].items[1]), <<"t", "i", "t", "l", "e">>) =>
                /\ compiled[1].parameters.slideTypes = Some(<<"content">>)
                /\ NeitherAllNorTitle(compiled[1])

\* a rule about content slides only, validated on a slide 1 that holds an
\* image, gave no violation
C22_Witness ==
    /\ Validated
    /\ violations = <<>>
    /\ \E i \in ImageRules :
          /\ ForbidsImages(rules[i])
          /\ rules[i].parameters.slideTypes = Some(<<"content">>)
    /\ \E n \in 1..Len(Slides) :
          /\ Slides[n].slideNumber = 1
          /\ Len(Slides[n].images) > 0


\* the run of handleSubmit that is awaiting fails: the file does not parse,
\* or the rule text compiles to no rule
FailingRun ==
    /\ pc = "awaiting"
    /\ \/ ~parsePptxFile(submitted.file.pkg).ok
       \/ parseMarkdownRules(submitted.rules.tokens) = <<>>

\* C23: a run of handleSubmit that fails leaves violations and hasResults
\* as they were; hasResults becomes true only at the end of a run that
\* called validatePresentation and stored its violations; and every run
\* that has started eventually ends with isProcessing false.
C23_FailureKeepsResults ==
    /\ [][(FailingRun /\ pc' = "ready") =>
            /\ uiViolations' = uiViolations
            /\ hasResults' = hasResults]_vars
    /\ [][(~hasResults /\ hasResults') =>
            /\ pc = "awaiting" /\ pc' = "ready"
            /\ ~FailingRun
            /\ validated'.called
            /\ toast' = AnalysisComplete
            /\ uiViolations' =
                  formatViolations(validatePresentation(parsePptxFile(submitted.file.pkg),
                                                        validated'.designRules))]_vars
    /\ [](pc = "awaiting" => isProcessing)
    /\ (pc = "awaiting") ~> (pc = "ready" /\ ~isProcessing)

\* a run on a file that is no archive has ended: nothing stored, isProcessing
\* false
C23_Witness ==
    /\ pc = "ready"
    /\ toast = ParseFailed
    /\ submitted.file.def
    /\ ~submitted.file.pkg.loads
    /\ uiViolations = <<>>
    /\ ~hasResults
    /\ ~isProcessing


====
